---- MODULE Spec2Model ----
(***************************************************************************)
(* Verification model of the boaviztapi hexagonal core:                    *)
(*   - ImpactCalculator (core/domain/services/impact_calculator.py)        *)
(*   - ComputeServerImpactUseCase (core/use_cases/compute_server_impact.py)*)
(*   - ArchetypeRepository (adapters/driven/persistence)                   *)
(*   - FactorProvider (adapters/driven/persistence)                        *)
(*                                                                         *)
(* Numbers.  Python floats are modelled as binary floating point numbers   *)
(* m * 2^e with a MantBits-bit significand and round-to-nearest-even;      *)
(* decimal.Decimal values are modelled exactly as coefficient/exponent     *)
(* pairs n * 10^k.  str(float) is the shortest decimal that reads back as  *)
(* the same float.  Strings that are concatenated into keys are sequences  *)
(* of characters/tokens.                                                   *)
(***************************************************************************)
EXTENDS Integers, Sequences, FiniteSets, TLC

VARIABLES
    aggArgs,   \* arguments of the aggregate_phase_impacts call under study
    aggRet,    \* its return value, or NotCalled
    mfgArgs,   \* arguments of calculate_manufacturing_impact / _end_of_life_impact
    mfgRet,    \* return value of calculate_manufacturing_impact, or NotCalled
    eolRet,    \* return value of calculate_end_of_life_impact, or NotCalled
    useArgs,   \* arguments of calculate_use_impact
    useRet,    \* return value for duration_hours = h, or NotCalled
    useRet2,   \* return value for duration_hours = 2h, or NotCalled
    execArgs,  \* arguments of ComputeServerImpactUseCase.execute
    execRet,   \* outcome of execute(execArgs), or NotCalled
    execRet2,  \* outcome of execute on the same arguments with another
               \* usage location, or NotCalled
    csvFiles,  \* the archetype CSV files under ArchetypeRepository._data_path
    config,    \* boaviztapi.config
    _cache,    \* ArchetypeRepository._cache: cache key -> reference to a dict
    heap,      \* the dicts get_archetype has built, by reference
    repoCall,  \* the last call on the repository and its outcome
    memo,      \* (operation, arguments) -> the reference a lookup of that
               \* pair returned first since the last clear_cache
    threads,   \* the threads inside ArchetypeRepository lookups
    factors_yml, \* the document in factors.yml under FactorProvider._data_path
    _factors,  \* FactorProvider._factors
    reader,    \* the thread inside a FactorProvider read
    ucArgs,    \* the use case under study and the arguments of its execute
    ucRet,     \* outcome of that execute, or NotCalled
    ucRetYear, \* outcome of the same call with duration 8760, or NotCalled
    mapArgs,   \* a server request and a usage schema of the REST layer
    mapDevice, \* the DeviceConfiguration mapped from the request, or NotCalled
    mapUsage,  \* the UsageConfiguration mapped from the usage schema, or NotCalled
    mapCalc,   \* what the calculator computes from mapDevice, or NotCalled
    mapAgain,  \* the configurations mapped from mapDevice and mapUsage
               \* submitted again, or NotCalled
    _instance, \* DIContainer._instance: a container or NoneRef
    built,     \* the containers built so far
    calls      \* the get_container and reset_instance calls made, with
               \* what each returned

calcVars == <<aggArgs, aggRet, mfgArgs, mfgRet, eolRet, useArgs, useRet, useRet2>>
execVars == <<execArgs, execRet, execRet2>>

repoVars == <<csvFiles, config, _cache, heap, repoCall, memo, threads>>
factorVars == <<factors_yml, _factors, reader>>
storeVars == <<repoVars, factorVars>>

ucVars == <<ucArgs, ucRet, ucRetYear>>

mapVars == <<mapArgs, mapDevice, mapUsage, mapCalc, mapAgain>>

diVars == <<_instance, built, calls>>

vars == <<calcVars, execVars, storeVars, ucVars, mapVars, diVars>>

\* ------------------------------------------------------------------------
\* Bounds of the model
\* ------------------------------------------------------------------------
MantBits == 5       \* bits of a float's significand (53 in CPython)
MaxCalls == 7        \* longest sequence of container calls
MaxCriteria == 2    \* longest criteria list
MaxObjects == 3     \* dicts on the heap of an ArchetypeRepository
NumThreads == 2     \* threads calling one ArchetypeRepository

\* ------------------------------------------------------------------------
\* core/config_constants.py
\* ------------------------------------------------------------------------
HOURS_PER_YEAR == 8760

\* ------------------------------------------------------------------------
\* decimal.Decimal: n * 10^k, kept normalised so that = is numeric equality
\* ------------------------------------------------------------------------
Abs(x) == IF x < 0 THEN 0 - x ELSE x

RECURSIVE DNorm(_)
DNorm(d) ==
    IF d.n = 0 THEN [n |-> 0, k |-> 0]
    ELSE IF d.n % 10 = 0 THEN DNorm([n |-> d.n \div 10, k |-> d.k + 1])
    ELSE d

Dec(n, k) == DNorm([n |-> n, k |-> k])

DZero == Dec(0, 0)

MinOf(a, b) == IF a < b THEN a ELSE b

\* coefficient of d when written with exponent k (k <= d.k)
DCoef(d, k) == d.n * (10 ^ (d.k - k))

DAdd(a, b) ==
    LET k == MinOf(a.k, b.k)
    IN  Dec(DCoef(a, k) + DCoef(b, k), k)

DMul(a, b) == Dec(a.n * b.n, a.k + b.k)

DLe(a, b) ==
    LET k == MinOf(a.k, b.k)
    IN  DCoef(a, k) <= DCoef(b, k)

\* ------------------------------------------------------------------------
\* Python float: m * 2^e with m = 0 or 2^(MantBits-1) <= |m| < 2^MantBits.
\* Every conversion and operation rounds to nearest, ties to even.
\* ------------------------------------------------------------------------
MantLo == 2 ^ (MantBits - 1)
MantHi == 2 ^ MantBits

FlZero == [m |-> 0, e |-> 0]

\* nearest integer to n/d, ties to even (n >= 0, d > 0)
RoundHalfEven(n, d) ==
    LET q == n \div d
        r == n % d
    IN  IF 2 * r > d \/ (2 * r = d /\ q % 2 = 1) THEN q + 1 ELSE q

\* the float nearest to (n/d) * 2^e, for n > 0 and d > 0
RECURSIVE FlRoundPos(_, _, _)
FlRoundPos(n, d, e) ==
    IF n \div d < MantLo THEN FlRoundPos(2 * n, d, e - 1)
    ELSE IF n \div d >= MantHi THEN FlRoundPos(n, 2 * d, e + 1)
    ELSE LET m == RoundHalfEven(n, d)
         IN  IF m = MantHi THEN [m |-> MantLo, e |-> e + 1]
             ELSE [m |-> m, e |-> e]

\* the float nearest to (n/d) * 2^e, d > 0
FlRound(n, d, e) ==
    IF n = 0 THEN FlZero
    ELSE IF n < 0
         THEN LET p == FlRoundPos(0 - n, d, e) IN [m |-> 0 - p.m, e |-> p.e]
         ELSE FlRoundPos(n, d, e)

\* float(i) for an int i
FlFromInt(i) == FlRound(i, 1, 0)

\* float(Decimal) and the value of a float literal written n * 10^k
FlFromDec(d) ==
    IF d.k >= 0 THEN FlRound(d.n * (5 ^ d.k), 1, d.k)
    ELSE FlRound(d.n, 5 ^ (0 - d.k), d.k)

FlMul(x, y) == FlRound(x.m * y.m, 1, x.e + y.e)

FlDiv(x, y) ==
    IF y.m < 0 THEN FlRound(0 - x.m, 0 - y.m, x.e - y.e)
    ELSE FlRound(x.m, y.m, x.e - y.e)

FlAdd(x, y) ==
    IF x.m = 0 THEN y
    ELSE IF y.m = 0 THEN x
    ELSE LET e == MinOf(x.e, y.e)
         IN  FlRound(x.m * (2 ^ (x.e - e)) + y.m * (2 ^ (y.e - e)), 1, e)

\* |x| / 10^k as a fraction num/den
ScaledBy10(x, k) ==
    LET twos == x.e - k
        fives == 0 - k
    IN  [num |-> Abs(x.m) * (IF twos > 0 THEN 2 ^ twos ELSE 1)
                          * (IF fives > 0 THEN 5 ^ fives ELSE 1),
         den |-> (IF twos < 0 THEN 2 ^ (0 - twos) ELSE 1)
                 * (IF fives < 0 THEN 5 ^ (0 - fives) ELSE 1)]

\* the exponent k with 10^(digits-1) <= |x| / 10^k < 10^digits (x # 0)
RECURSIVE DecExp(_, _, _)
DecExp(x, digits, k) ==
    LET f == ScaledBy10(x, k)
    IN  IF f.num \div f.den < 10 ^ (digits - 1) THEN DecExp(x, digits, k - 1)
        ELSE IF f.num \div f.den >= 10 ^ digits THEN DecExp(x, digits, k + 1)
        ELSE k

\* x rounded to a multiple of 10^k, given f = |x| / 10^k
RoundedAt(x, k, f) ==
    Dec((IF x.m < 0 THEN 0 - 1 ELSE 1) * RoundHalfEven(f.num, f.den), k)

NearestDecAt(x, k) == RoundedAt(x, k, ScaledBy10(x, k))

\* the decimal with the given number of significant digits nearest to x
NearestDec(x, digits) == NearestDecAt(x, DecExp(x, digits, 0))

RECURSIVE ShortestRepr(_, _)

\* candidate if it reads back as x, else the shortest repr with more digits
ReprFrom(x, digits, candidate) ==
    IF FlFromDec(candidate) = x THEN candidate
    ELSE ShortestRepr(x, digits + 1)

ShortestRepr(x, digits) == ReprFrom(x, digits, NearestDec(x, digits))

\* Decimal(str(x)): str gives the shortest decimal string that reads back
\* as x (the one nearest to x among the shortest)
DecimalOfStr(x) == IF x.m = 0 THEN DZero ELSE ShortestRepr(x, 1)

\* Python None
None == [none |-> TRUE]

\* a call that has not been made yet
NotCalled == [called |-> FALSE]

\* ------------------------------------------------------------------------
\* core/domain/model/impact.py
\* ------------------------------------------------------------------------
ImpactValue(value, min_value, max_value, unit, source) ==
    [value |-> value, min_value |-> min_value, max_value |-> max_value,
     unit |-> unit, source |-> source]

\* ------------------------------------------------------------------------
\* Python values used by the calculator
\* ------------------------------------------------------------------------
\* getattr(obj, name, default): objects are records of their attributes
getattr(obj, name, default) == IF name \in DOMAIN obj THEN obj[name] ELSE default

\* dict.get(key, default) on a dict modelled as a function
DictGet(dict, key, default) == IF key \in DOMAIN dict THEN dict[key] ELSE default

EmptyDict == <<>>

\* None for attributes that hold strings
NoneStr == "None"

\* the set of elements of a list
Elems(seq) == {seq[i] : i \in 1..Len(seq)}

DEFAULT_WORKLOAD_PERCENTAGE == 50

unit_map == [gwp |-> "kgCO2eq", pe |-> "MJ", adp |-> "kgSbeq"]

\* ------------------------------------------------------------------------
\* ImpactCalculator: component manufacturing impacts
\* A factor dict maps "impact" / "die_impact" to floats.
\* ------------------------------------------------------------------------
_calculate_cpu_manufacturing(cpu_config, cpu_factors) ==
    LET base_impact == DictGet(cpu_factors, "impact", FlFromDec(Dec(200, -1)))
        units == getattr(cpu_config, "units", 1)
    IN  DecimalOfStr(FlMul(base_impact, FlFromInt(units)))

_calculate_ram_manufacturing(ram_config, ram_factors) ==
    LET base_impact == DictGet(ram_factors, "impact", FlFromDec(Dec(100, -1)))
        units == getattr(ram_config, "units", 1)
    IN  DecimalOfStr(FlMul(base_impact, FlFromInt(units)))

_calculate_disk_manufacturing(disk_config, disk_factors) ==
    LET base_impact == DictGet(disk_factors, "impact", FlFromDec(Dec(150, -1)))
        units == getattr(disk_config, "units", 1)
    IN  DecimalOfStr(FlMul(base_impact, FlFromInt(units)))

\* sum of f(list[i]) for i in 1..n, accumulated left to right from acc
RECURSIVE SumRam(_, _, _, _)
SumRam(ram, n, impact_factors, acc) ==
    IF n = 0 THEN acc
    ELSE DAdd(SumRam(ram, n - 1, impact_factors, acc),
              _calculate_ram_manufacturing(ram[n],
                                           DictGet(impact_factors, "ram", EmptyDict)))

RECURSIVE SumDisk(_, _, _, _)
SumDisk(disk, n, impact_factors, acc) ==
    IF n = 0 THEN acc
    ELSE DAdd(SumDisk(disk, n - 1, impact_factors, acc),
              _calculate_disk_manufacturing(disk[n],
                                            DictGet(impact_factors, disk[n].type, EmptyDict)))

\* Variant of ManufacturingTotal without the "device_config.cpu and" test:
\* the CPU factor is charged whenever the table has a "cpu" category.
ManufacturingTotal_noCpuTest(device_config, impact_factors) ==
    LET afterCpu ==
            IF "cpu" \in DOMAIN impact_factors
            THEN DAdd(DZero, _calculate_cpu_manufacturing(device_config.cpu,
                                                          impact_factors["cpu"]))
            ELSE DZero
        afterRam == SumRam(device_config.ram, Len(device_config.ram),
                           impact_factors, afterCpu)
    IN  SumDisk(device_config.disk, Len(device_config.disk), impact_factors, afterRam)

\* the manufacturing total of one criterion (the loop body, lines 45-71)
ManufacturingTotal(device_config, impact_factors) ==
    LET afterCpu ==
            IF device_config.cpu # None /\ "cpu" \in DOMAIN impact_factors
            THEN DAdd(DZero, _calculate_cpu_manufacturing(device_config.cpu,
                                                          impact_factors["cpu"]))
            ELSE DZero
        afterRam == SumRam(device_config.ram, Len(device_config.ram),
                           impact_factors, afterCpu)
    IN  SumDisk(device_config.disk, Len(device_config.disk), impact_factors, afterRam)

\* the ImpactValue of lines 80-86
ManufacturingImpactValue(total_value, criterion) ==
    ImpactValue(total_value,
                DMul(total_value, Dec(9, -1)),
                DMul(total_value, Dec(11, -1)),
                DictGet(unit_map, criterion, "unknown"),
                "CALCULATED")

calculate_manufacturing_impact(device_config, criteria, impact_factors) ==
    [criterion \in Elems(criteria) |->
        ManufacturingImpactValue(ManufacturingTotal(device_config, impact_factors),
                                 criterion)]

\* Variant of calculate_end_of_life_impact that estimates the end of life
\* as a tenth of the manufacturing total.
calculate_end_of_life_impact_estimated(device_config, criteria, impact_factors) ==
    [criterion \in Elems(criteria) |->
        ImpactValue(DMul(ManufacturingTotal(device_config, impact_factors), Dec(1, -1)),
                    Dec(0, 0), Dec(0, 0),
                    DictGet(unit_map, criterion, "unknown"),
                    "NOT_IMPLEMENTED")]

calculate_end_of_life_impact(device_config, criteria, impact_factors) ==
    [criterion \in Elems(criteria) |->
        ImpactValue(Dec(0, 0), Dec(0, 0), Dec(0, 0),
                    DictGet(unit_map, criterion, "unknown"),
                    "NOT_IMPLEMENTED")]

\* ------------------------------------------------------------------------
\* ImpactCalculator: use phase
\* ------------------------------------------------------------------------
RECURSIVE RamPower(_, _, _)
RamPower(ram, n, acc) ==
    IF n = 0 THEN acc
    ELSE LET ram_power == FlFromDec(Dec(50, -1))
             units == getattr(ram[n], "units", 1)
         IN  FlAdd(RamPower(ram, n - 1, acc), FlMul(ram_power, FlFromInt(units)))

RECURSIVE DiskPower(_, _, _)
DiskPower(disk, n, acc) ==
    IF n = 0 THEN acc
    ELSE LET disk_power == IF disk[n].type = "hdd" THEN FlFromDec(Dec(100, -1))
                           ELSE FlFromDec(Dec(50, -1))
             units == getattr(disk[n], "units", 1)
         IN  FlAdd(DiskPower(disk, n - 1, acc), FlMul(disk_power, FlFromInt(units)))

\* lines 238-242: the TDP as a float, 100.0 when it is None
CpuTdp(cpu_tdp) ==
    IF cpu_tdp = None THEN FlFromDec(Dec(1000, -1)) ELSE FlFromDec(cpu_tdp)

_estimate_device_power(device_config) ==
    LET afterCpu ==
            IF device_config.cpu # None
            THEN LET units == getattr(device_config.cpu, "units", 1)
                 IN  FlAdd(FlZero,
                           FlMul(CpuTdp(getattr(device_config.cpu, "tdp", None)),
                                 FlFromInt(units)))
            ELSE FlZero
        afterRam == RamPower(device_config.ram, Len(device_config.ram), afterCpu)
        afterDisk == DiskPower(device_config.disk, Len(device_config.disk), afterRam)
    IN  FlAdd(afterDisk, FlFromDec(Dec(500, -1)))

\* "if usage_config.workload:" -- a workload is None or a dict of ints
HasWorkload(usage_config) ==
    usage_config.workload # None /\ usage_config.workload # EmptyDict

\* time_workload = usage_config.workload.get('time_workload', 50) / 100
TimeWorkload(usage_config) ==
    FlDiv(FlFromInt(DictGet(usage_config.workload, "time_workload", 50)),
          FlFromInt(100))

\* lines 122-124: the workload share applied to energy_kwh
ApplyWorkload(energy_kwh, usage_config) ==
    IF HasWorkload(usage_config)
    THEN FlMul(energy_kwh, TimeWorkload(usage_config))
    ELSE energy_kwh

\* Variant of EnergyKwh that adds one kWh of standby energy.
EnergyKwh_standby(device_config, usage_config, duration_hours) ==
    FlAdd(ApplyWorkload(FlMul(FlDiv(_estimate_device_power(device_config),
                                    FlFromInt(1000)),
                              duration_hours),
                        usage_config),
          FlFromInt(1))

\* energy_kwh of lines 116-124; duration_hours is a float
EnergyKwh(device_config, usage_config, duration_hours) ==
    ApplyWorkload(FlMul(FlDiv(_estimate_device_power(device_config),
                              FlFromInt(1000)),
                        duration_hours),
                  usage_config)

\* the ImpactValue of lines 138-144
UseImpactValue(impact_value, criterion) ==
    ImpactValue(impact_value,
                DMul(impact_value, Dec(8, -1)),
                DMul(impact_value, Dec(12, -1)),
                DictGet(unit_map, criterion, "unknown"),
                "CALCULATED")

\* lines 126-144 for the energy computed before the loop
UseImpacts(energy_kwh, criteria, electrical_factors) ==
    [criterion \in Elems(criteria) |->
        UseImpactValue(
            DecimalOfStr(FlMul(energy_kwh, DictGet(electrical_factors, criterion, FlZero))),
            criterion)]

calculate_use_impact(device_config, usage_config, criteria, duration_hours, electrical_factors) ==
    UseImpacts(EnergyKwh(device_config, usage_config, duration_hours),
               criteria, electrical_factors)

\* ------------------------------------------------------------------------
\* ImpactCalculator.aggregate_phase_impacts
\* A phase mapping (dict criterion -> ImpactValue) is a function whose
\* DOMAIN is the set of its keys.
\* ------------------------------------------------------------------------
\* Variant of aggregate_phase_impacts that keeps only the criteria common to
\* all three phases (intersection instead of union).
aggregate_phase_impacts_common(manufacturing, use, end_of_life) ==
    LET all_criteria == DOMAIN manufacturing \cap DOMAIN use \cap DOMAIN end_of_life
    IN  [c \in all_criteria |->
            ImpactValue(DAdd(DAdd(manufacturing[c].value, use[c].value),
                             end_of_life[c].value),
                        None, None, end_of_life[c].unit, "AGGREGATED")]

aggregate_phase_impacts(manufacturing, use, end_of_life) ==
    LET all_criteria == DOMAIN manufacturing \cup DOMAIN use \cup DOMAIN end_of_life
        AfterM(c) == IF c \in DOMAIN manufacturing
                     THEN [v |-> DAdd(DZero, manufacturing[c].value),
                           u |-> manufacturing[c].unit]
                     ELSE [v |-> DZero, u |-> "unknown"]
        AfterU(c) == IF c \in DOMAIN use
                     THEN [v |-> DAdd(AfterM(c).v, use[c].value), u |-> use[c].unit]
                     ELSE AfterM(c)
        AfterE(c) == IF c \in DOMAIN end_of_life
                     THEN [v |-> DAdd(AfterU(c).v, end_of_life[c].value),
                           u |-> end_of_life[c].unit]
                     ELSE AfterU(c)
    IN  [c \in all_criteria |->
            ImpactValue(AfterE(c).v, None, None, AfterE(c).u, "AGGREGATED")]

\* ------------------------------------------------------------------------
\* ComputeServerImpactUseCase (core/use_cases/compute_server_impact.py)
\* ------------------------------------------------------------------------
_get_impact_factors ==
    [cpu |-> [impact |-> FlFromDec(Dec(200, -1)), die_impact |-> FlFromDec(Dec(20, -1))],
     ram |-> [impact |-> FlFromDec(Dec(100, -1)), die_impact |-> FlFromDec(Dec(5, -1))],
     ssd |-> [impact |-> FlFromDec(Dec(150, -1)), die_impact |-> FlFromDec(Dec(10, -1))],
     hdd |-> [impact |-> FlFromDec(Dec(120, -1))]]

\* Variant of _get_electrical_factors that reads the mix of the location
\* from the injected factor provider.
_get_electrical_factors_fromProvider(location) ==
    IF "electricity" \in DOMAIN _factors
       /\ location \in DOMAIN _factors["electricity"]
    THEN _factors["electricity"][location]
    ELSE EmptyDict

_get_electrical_factors(location) ==
    [gwp |-> FlFromDec(Dec(5, -1)),
     pe |-> FlFromDec(Dec(110, -1)),
     adp |-> FlFromDec(Dec(2, -5))]

_build_phase_impacts(manufacturing, use, end_of_life) ==
    [manufacturing |-> [k \in DOMAIN manufacturing |-> manufacturing[k]],
     use |-> [k \in DOMAIN use |-> use[k]],
     end_of_life |-> [k \in DOMAIN end_of_life |-> end_of_life[k]]]

_build_verbose_data(device_config, usage_config) ==
    [device |-> [cpu |-> device_config.cpu # None,
                 ram_count |-> Len(device_config.ram),
                 disk_count |-> Len(device_config.disk)],
     usage |-> [location |-> usage_config.location]]

\* outcome of a call: a returned value or a raised exception
Returned(value) == [raised |-> "", value |-> value]
Raised(exception) == [raised |-> exception]

\* execute, lines 110-134: aggregation and the ImpactResult
BuildImpactResult(manufacturing_impacts, use_impacts, end_of_life_impacts, duration, verbose_data) ==
    [impacts |-> aggregate_phase_impacts(manufacturing_impacts, use_impacts,
                                         end_of_life_impacts),
     phases |-> _build_phase_impacts(manufacturing_impacts, use_impacts,
                                     end_of_life_impacts),
     duration_years |-> FlDiv(duration, FlFromInt(HOURS_PER_YEAR)),
     verbose_data |-> verbose_data]

\* execute, lines 83-134: the computation once the inputs are validated and
\* the duration (a float) is resolved
ComputeImpactResult(device_config, usage_config, criteria, duration, verbose) ==
    BuildImpactResult(
        calculate_manufacturing_impact(device_config, criteria, _get_impact_factors),
        calculate_use_impact(device_config, usage_config, criteria, duration,
                             _get_electrical_factors(usage_config.location)),
        calculate_end_of_life_impact(device_config, criteria, _get_impact_factors),
        duration,
        IF verbose THEN _build_verbose_data(device_config, usage_config) ELSE None)

\* Variant of execute that treats a location other than "FR" as having no
\* data and computes nothing for it.
execute_skipUnknownLocation(device_config, usage_config, criteria, duration, verbose) ==
    IF device_config = None THEN Raised("InvalidDeviceConfigurationError")
    ELSE IF usage_config = None THEN Raised("InvalidUsageConfigurationError")
    ELSE Returned(ComputeImpactResult(
             device_config, usage_config,
             IF usage_config.location = "FR" THEN criteria ELSE <<>>,
             IF duration = None THEN FlFromInt(HOURS_PER_YEAR) ELSE duration,
             verbose))

\* Variant of execute that falls back to the default criteria when the
\* criteria list is empty ("criteria or DEFAULT_CRITERIA").
execute_defaultCriteria(device_config, usage_config, criteria, duration, verbose) ==
    IF device_config = None THEN Raised("InvalidDeviceConfigurationError")
    ELSE IF usage_config = None THEN Raised("InvalidUsageConfigurationError")
    ELSE Returned(ComputeImpactResult(
             device_config, usage_config,
             IF criteria = <<>> THEN <<"gwp", "adp", "pe">> ELSE criteria,
             IF duration = None THEN FlFromInt(HOURS_PER_YEAR) ELSE duration,
             verbose))

\* duration is None or a float
execute(device_config, usage_config, criteria, duration, verbose) ==
    IF device_config = None THEN Raised("InvalidDeviceConfigurationError")
    ELSE IF usage_config = None THEN Raised("InvalidUsageConfigurationError")
    ELSE Returned(ComputeImpactResult(
             device_config, usage_config, criteria,
             IF duration = None THEN FlFromInt(HOURS_PER_YEAR) ELSE duration,
             verbose))

\* ------------------------------------------------------------------------
\* The cloud, component, IoT and terminal use cases
\* (core/use_cases/compute_cloud_impact.py, compute_component_impact.py,
\* compute_device_impact.py)
\* ------------------------------------------------------------------------
\* `not s` for an Optional[str]
Falsy(s) == s = NoneStr \/ s = ""

\* the ImpactResult the stub use cases build for a resolved duration
StubImpactResult(duration, verbose) ==
    [impacts |-> EmptyDict,
     phases |-> [manufacturing |-> EmptyDict, use |-> EmptyDict,
                 end_of_life |-> EmptyDict],
     duration_years |-> FlDiv(duration, FlFromInt(HOURS_PER_YEAR)),
     verbose_data |-> IF verbose THEN EmptyDict ELSE None]

\* ComputeCloudImpactUseCase.execute
execute_cloud(instance_config, usage_config, criteria, duration, verbose) ==
    IF instance_config = None THEN Raised("InvalidDeviceConfigurationError")
    ELSE IF Falsy(instance_config.instance_type)
    THEN Raised("InvalidDeviceConfigurationError")
    ELSE IF Falsy(instance_config.provider)
    THEN Raised("InvalidDeviceConfigurationError")
    ELSE IF usage_config = None THEN Raised("InvalidUsageConfigurationError")
    ELSE Returned(StubImpactResult(
             IF duration = None THEN FlFromInt(HOURS_PER_YEAR) ELSE duration,
             verbose))

\* ComputeComponentImpactUseCase.execute
execute_component(component_config, usage_config, criteria, duration, verbose) ==
    IF component_config = None THEN Raised("InvalidComponentConfigurationError")
    ELSE IF Falsy(component_config.component_type)
    THEN Raised("InvalidComponentConfigurationError")
    ELSE IF usage_config = None THEN Raised("InvalidUsageConfigurationError")
    ELSE Returned(StubImpactResult(
             IF duration = None THEN FlFromInt(8760) ELSE duration, verbose))

\* Variant of execute_iot that takes a duration of 0 for an absent one.
execute_iot_zeroIsAbsent(device_config, usage_config, criteria, duration, verbose) ==
    IF device_config = None THEN Raised("InvalidDeviceConfigurationError")
    ELSE IF usage_config = None THEN Raised("InvalidUsageConfigurationError")
    ELSE Returned(StubImpactResult(
             IF duration = None \/ duration = FlZero
             THEN FlFromInt(HOURS_PER_YEAR) ELSE duration,
             verbose))

\* ComputeIoTImpactUseCase.execute
execute_iot(device_config, usage_config, criteria, duration, verbose) ==
    IF device_config = None THEN Raised("InvalidDeviceConfigurationError")
    ELSE IF usage_config = None THEN Raised("InvalidUsageConfigurationError")
    ELSE Returned(StubImpactResult(
             IF duration = None THEN FlFromInt(HOURS_PER_YEAR) ELSE duration,
             verbose))

\* Variant of execute_terminal that validates the usage configuration only
\* after it has built the result for a terminal.
execute_terminal_lateValidation(terminal_config, usage_config, criteria, duration, verbose) ==
    IF terminal_config = None THEN Raised("InvalidDeviceConfigurationError")
    ELSE Returned(StubImpactResult(
             IF duration = None THEN FlFromInt(HOURS_PER_YEAR) ELSE duration,
             verbose))

\* ComputeTerminalImpactUseCase.execute
execute_terminal(terminal_config, usage_config, criteria, duration, verbose) ==
    IF terminal_config = None THEN Raised("InvalidDeviceConfigurationError")
    ELSE IF usage_config = None THEN Raised("InvalidUsageConfigurationError")
    ELSE Returned(StubImpactResult(
             IF duration = None THEN FlFromInt(HOURS_PER_YEAR) ELSE duration,
             verbose))

\* execute of the use case of one kind
ExecuteUseCase(kind, configuration, usage_config, criteria, duration, verbose) ==
    CASE kind = "server" ->
             execute(configuration, usage_config, criteria, duration, verbose)
      [] kind = "cloud" ->
             execute_cloud(configuration, usage_config, criteria, duration, verbose)
      [] kind = "component" ->
             execute_component(configuration, usage_config, criteria, duration,
                               verbose)
      [] kind = "iot" ->
             execute_iot(configuration, usage_config, criteria, duration, verbose)
      [] kind = "terminal" ->
             execute_terminal(configuration, usage_config, criteria, duration,
                              verbose)

\* ------------------------------------------------------------------------
\* REST mapping of a server request to the domain model
\* (adapters/driving/rest/mappers/server_mapper.py,
\* adapters/driving/rest/schemas/common.py)
\* A schema is a record of its fields; an omitted Optional field is None
\* (NoneStr for a string).  A domain configuration is a record of the
\* dataclass fields the mapper sets, plus completed_attributes.
\* ------------------------------------------------------------------------
\* None for the Optional[int] fields of a schema, which hold integers >= 1
NoneInt == 0

\* None for an Optional[List]: the mapper tests `not ram_schemas` and
\* DeviceConfiguration.__post_init__ turns None into [], so None and []
\* are never told apart
NoneList == <<>>

DEFAULT_LIFETIME_HOURS == 35040

DEFAULT_LOCATION == "EEE"

\* Decimal(str(x)) if x is not None else None
DecimalOrNone(x) == IF x # None THEN DecimalOfStr(x) ELSE None

\* ServerMapper.to_cpu_configuration; CPUSchema.units is not read
to_cpu_configuration(cpu_schema) ==
    IF cpu_schema = None THEN None
    ELSE [core_units |-> cpu_schema.core_units,
          tdp |-> DecimalOrNone(cpu_schema.tdp),
          completed_attributes |-> EmptyDict]

\* ServerMapper.to_ram_configurations; RAMSchema.units is not read
to_ram_configurations(ram_schemas) ==
    IF ram_schemas = NoneList THEN NoneList
    ELSE [i \in 1..Len(ram_schemas) |->
             [capacity_gb |-> DecimalOrNone(ram_schemas[i].capacity),
              completed_attributes |-> EmptyDict]]

\* ServerMapper.to_disk_configurations; DiskSchema.units is not read
to_disk_configurations(disk_schemas) ==
    IF disk_schemas = NoneList THEN NoneList
    ELSE [i \in 1..Len(disk_schemas) |->
             [type |-> disk_schemas[i].type,
              capacity_gb |-> DecimalOrNone(disk_schemas[i].capacity),
              completed_attributes |-> EmptyDict]]

\* the dataclass constructor with its __post_init__
DeviceConfiguration(cpu, ram, disk) ==
    [cpu |-> cpu,
     ram |-> IF ram = NoneList THEN <<>> ELSE ram,
     disk |-> IF disk = NoneList THEN <<>> ELSE disk,
     completed_attributes |-> EmptyDict]

\* ServerMapper.to_device_configuration
to_device_configuration(request) ==
    IF request.configuration = None
    THEN DeviceConfiguration(None, NoneList, NoneList)
    ELSE DeviceConfiguration(to_cpu_configuration(request.configuration.cpu),
                             to_ram_configurations(request.configuration.ram),
                             to_disk_configurations(request.configuration.disk))

\* Variant of WorkloadDict that stores each percentage as a fraction.
WorkloadDict_asFraction(workload) ==
    IF workload = None \/ workload = EmptyDict THEN None
    ELSE [k \in DOMAIN workload |->
             DecimalOfStr(FlDiv(workload[k], FlFromInt(100)))]

\* the workload dict of lines 79-81
WorkloadDict(workload) ==
    IF workload = None \/ workload = EmptyDict THEN None
    ELSE [k \in DOMAIN workload |-> DecimalOfStr(workload[k])]

\* UsageSchema.to_domain; UsageSchema.time_workload is not read
to_domain(usage_schema) ==
    [hours_use_time |-> DecimalOfStr(FlFromInt(HOURS_PER_YEAR)),
     hours_life_time |->
         DecimalOfStr(IF usage_schema.hours_life_time # None
                      THEN usage_schema.hours_life_time
                      ELSE FlFromInt(DEFAULT_LIFETIME_HOURS)),
     location |-> IF ~Falsy(usage_schema.usage_location)
                  THEN usage_schema.usage_location
                  ELSE DEFAULT_LOCATION,
     workload |-> WorkloadDict(usage_schema.workload),
     completed_attributes |-> EmptyDict]

\* ------------------------------------------------------------------------
\* ArchetypeRepository (adapters/driven/persistence/archetype_repository.py)
\*
\* A str is a sequence of tokens, so that an f-string is a concatenation.
\* A dict returned to a caller is an object of the heap, referred to by its
\* position in the heap; the reference 0 is None.
\* ------------------------------------------------------------------------
Default == <<"default">>

NoneRef == 0

\* the object a reference refers to
Deref(objects, ref) == IF ref = NoneRef THEN None ELSE objects[ref]

\* truth value of an object in a condition
Truthy(x) == x # None /\ x # EmptyDict

\* os.path.exists(csv_path) in a data directory given as a function from
\* the paths of its CSV files to their rows
exists(files, csv_path) == csv_path \in DOMAIN files

\* boaviztapi.service.archetype.get_archetype(archetype_id, csv_path): the
\* row of that id as a new dict, an empty result when there is no such row
get_archetype(files, archetype_id, csv_path) ==
    IF archetype_id \in DOMAIN files[csv_path]
    THEN files[csv_path][archetype_id]
    ELSE EmptyDict

\* what a lookup consults: the id after the rewrite of "default", the cache
\* key, the CSV file, and whether os.path.exists guards the read
LookupPlan(archetype_id, cache_key, csv_path, exists_checked) ==
    [archetype_id |-> archetype_id, cache_key |-> cache_key,
     csv_path |-> csv_path, exists_checked |-> exists_checked]

\* lines 46-49 and 53 with the id after the rewrite
ServerPlan(archetype_id) ==
    LookupPlan(archetype_id, <<"server", ":">> \o archetype_id,
               <<"archetypes/server.csv">>, FALSE)

get_server_archetype(cfg, archetype_id) ==
    ServerPlan(IF archetype_id = Default
               THEN DictGet(cfg, "default_server", <<"platform_compute_medium">>)
               ELSE archetype_id)

get_cloud_instance_archetype(cfg, instance_type, provider) ==
    LookupPlan(instance_type,
               <<"cloud", ":">> \o provider \o <<":">> \o instance_type,
               <<"archetypes/cloud/">> \o provider \o <<".csv">>, TRUE)

get_component_archetype(cfg, archetype_id, component_type) ==
    LookupPlan(archetype_id,
               <<"component", ":">> \o component_type \o <<":">> \o archetype_id,
               <<"archetypes/components/">> \o component_type \o <<".csv">>, TRUE)

\* lines 137 and 141 with the id after the rewrite
IotPlan(archetype_id) ==
    LookupPlan(archetype_id, <<"iot", ":">> \o archetype_id,
               <<"archetypes/iot_device.csv">>, TRUE)

get_iot_device_archetype(cfg, archetype_id) ==
    IotPlan(IF archetype_id = Default
            THEN DictGet(cfg, "default_iot_device", <<"iot-device-default">>)
            ELSE archetype_id)

\* lines 166 and 170 with the id after the rewrite
TerminalPlan(archetype_id) ==
    LookupPlan(archetype_id, <<"terminal", ":">> \o archetype_id,
               <<"archetypes/user_terminal.csv">>, TRUE)

get_user_terminal_archetype(cfg, archetype_id) ==
    TerminalPlan(IF archetype_id = Default
                 THEN DictGet(cfg, "default_laptop", <<"laptop-pro">>)
                 ELSE archetype_id)

\* the plan of the lookup op(*args)
PlanOf(cfg, op, args) ==
    CASE op = "get_server_archetype" -> get_server_archetype(cfg, args[1])
      [] op = "get_cloud_instance_archetype" ->
             get_cloud_instance_archetype(cfg, args[1], args[2])
      [] op = "get_component_archetype" ->
             get_component_archetype(cfg, args[1], args[2])
      [] op = "get_iot_device_archetype" -> get_iot_device_archetype(cfg, args[1])
      [] op = "get_user_terminal_archetype" ->
             get_user_terminal_archetype(cfg, args[1])

\* outcome of a lookup: the cache and the heap it leaves, the reference it
\* returns, and whether it read the backing table
LookupOutcome(cache, objects, ret, read) ==
    [cache |-> cache, heap |-> objects, ret |-> ret, read |-> read]

\* lines 56-59: the archetype read from the table is cached and returned
\* when it is truthy
CacheAndReturn(plan, cache, objects, archetype) ==
    IF Truthy(archetype)
    THEN LookupOutcome((plan.cache_key :> (Len(objects) + 1)) @@ cache,
                       Append(objects, archetype), Len(objects) + 1, TRUE)
    ELSE LookupOutcome(cache, objects, NoneRef, TRUE)

\* Variant of Lookup that returns the archetype read from the table without
\* caching it.
Lookup_uncached(plan, cache, objects, files) ==
    IF plan.cache_key \in DOMAIN cache
    THEN LookupOutcome(cache, objects, cache[plan.cache_key], FALSE)
    ELSE IF plan.exists_checked /\ ~exists(files, plan.csv_path)
    THEN LookupOutcome(cache, objects, NoneRef, FALSE)
    ELSE IF Truthy(get_archetype(files, plan.archetype_id, plan.csv_path))
    THEN LookupOutcome(cache,
                       Append(objects, get_archetype(files, plan.archetype_id,
                                                     plan.csv_path)),
                       Len(objects) + 1, TRUE)
    ELSE LookupOutcome(cache, objects, NoneRef, TRUE)

\* lines 50-59 (76-89, 106-122, 138-151, 167-180): a lookup run on its own
Lookup(plan, cache, objects, files) ==
    IF plan.cache_key \in DOMAIN cache
    THEN LookupOutcome(cache, objects, cache[plan.cache_key], FALSE)
    ELSE IF plan.exists_checked /\ ~exists(files, plan.csv_path)
    THEN LookupOutcome(cache, objects, NoneRef, FALSE)
    ELSE CacheAndReturn(plan, cache, objects,
                        get_archetype(files, plan.archetype_id, plan.csv_path))

\* ------------------------------------------------------------------------
\* DIContainer (core/di_container.py)
\* A container is a reference into the sequence of the containers built so
\* far; each holds the two adapters its constructor built.
\* ------------------------------------------------------------------------
\* DIContainer.__init__ for the n-th container built
NewContainer(n) ==
    [_archetype_repository |-> <<"ArchetypeRepository", n>>,
     _factor_provider |-> <<"FactorProvider", n>>]

\* Variant of get_instance that builds a container on every call.
get_instance_fresh(instance, containers) ==
    [_instance |-> Len(containers) + 1,
     built |-> Append(containers, NewContainer(Len(containers) + 1)),
     ret |-> Len(containers) + 1]

\* DIContainer.get_instance on the class attribute _instance: the new
\* value of _instance, the containers built, and the container returned
get_instance(instance, containers) ==
    IF instance = NoneRef
    THEN [_instance |-> Len(containers) + 1,
          built |-> Append(containers, NewContainer(Len(containers) + 1)),
          ret |-> Len(containers) + 1]
    ELSE [_instance |-> instance, built |-> containers, ret |-> instance]

\* get_container()
get_container(instance, containers) == get_instance(instance, containers)

\* DIContainer.reset_instance: the new value of _instance
reset_instance == NoneRef

\* ------------------------------------------------------------------------
\* FactorProvider (adapters/driven/persistence/factor_provider.py)
\*
\* The factor table is the document yaml.safe_load returns: a dict (a
\* function from its keys), or None for an empty document.  A dict whose
\* order matters (available_countries) holds the sequence of its items.
\* ------------------------------------------------------------------------
OrderedDict(items) == [items |-> items]

\* data_path without a factors.yml
FactorsMissing == [exists |-> FALSE]

\* lines 37-41: the table _load_factors assigns to self._factors
_load_factors(document) ==
    IF document # FactorsMissing THEN document ELSE EmptyDict

\* outcome of a read: the value returned, or the exception raised
Outcome(raised, value) == [raised |-> raised, value |-> value]

\* Variant of ElectricalMixIn that scans the aliases before it tries the
\* direct key.
ElectricalMixIn_aliasFirst(electricity, country_code) ==
    LET available == DictGet(electricity, "available_countries",
                            OrderedDict(<<>>)).items
        matches == {i \in 1..Len(available) : available[i][2] = country_code}
    IN  IF matches # {}
        THEN DictGet(electricity,
                     available[CHOOSE i \in matches : \A j \in matches : i <= j][1],
                     None)
        ELSE IF country_code \in DOMAIN electricity THEN electricity[country_code]
        ELSE None

\* lines 71-83: the mix of country_code in the electricity section
ElectricalMixIn(electricity, country_code) ==
    IF country_code \in DOMAIN electricity THEN electricity[country_code]
    ELSE LET available == DictGet(electricity, "available_countries",
                            OrderedDict(<<>>)).items
             matches == {i \in 1..Len(available) : available[i][2] = country_code}
         IN  IF matches # {}
             THEN DictGet(electricity,
                          available[CHOOSE i \in matches :
                                        \A j \in matches : i <= j][1],
                          None)
             ELSE None

\* lines 117-120
ConsumptionProfileIn(consumption_profiles, component_type) ==
    IF Truthy(consumption_profiles) /\ component_type \in DOMAIN consumption_profiles
    THEN consumption_profiles[component_type]
    ELSE None

\* lines 176-182: manufacture + eol when both are present
CombinedImpact(manufacture, eol) ==
    IF manufacture # None /\ eol # None THEN FlAdd(manufacture, eol) ELSE None

\* Variant of IotImpactIn that returns the manufacture impact alone when
\* the eol impact is missing.
IotImpactIn_eolOptional(iot_factors, functional_block, hsl, impact_type) ==
    IF functional_block \notin DOMAIN iot_factors THEN None
    ELSE IF hsl \notin DOMAIN iot_factors[functional_block] THEN None
    ELSE DictGet(DictGet(iot_factors[functional_block][hsl], "manufacture",
                         EmptyDict),
                 impact_type, None)

\* lines 167-182
IotImpactIn(iot_factors, functional_block, hsl, impact_type) ==
    IF functional_block \notin DOMAIN iot_factors THEN None
    ELSE IF hsl \notin DOMAIN iot_factors[functional_block] THEN None
    ELSE CombinedImpact(
             DictGet(DictGet(iot_factors[functional_block][hsl], "manufacture",
                             EmptyDict),
                     impact_type, None),
             DictGet(DictGet(iot_factors[functional_block][hsl], "eol", EmptyDict),
                     impact_type, None))

\* the four reads, each run on its own on the table factors
get_impact_factors(factors, category) ==
    IF ~Truthy(factors) THEN None ELSE DictGet(factors, category, None)

get_electrical_mix(factors, country_code) ==
    IF ~Truthy(factors) \/ "electricity" \notin DOMAIN factors THEN None
    ELSE ElectricalMixIn(factors.electricity, country_code)

get_consumption_profile_factors(factors, component_type) ==
    IF ~Truthy(factors) THEN None
    ELSE ConsumptionProfileIn(DictGet(factors, "consumption_profiles", None),
                              component_type)

get_iot_impact_factor(factors, functional_block, hsl, impact_type) ==
    IF ~Truthy(factors) \/ "IoT" \notin DOMAIN factors THEN None
    ELSE IotImpactIn(factors.IoT, functional_block, hsl, impact_type)

\* the read op(*args) run on its own on the table factors
ReadOn(factors, op, args) ==
    CASE op = "get_impact_factors" -> get_impact_factors(factors, args[1])
      [] op = "get_electrical_mix" -> get_electrical_mix(factors, args[1])
      [] op = "get_consumption_profile_factors" ->
             get_consumption_profile_factors(factors, args[1])
      [] op = "get_iot_impact_factor" ->
             get_iot_impact_factor(factors, args[1], args[2], args[3])

\* the section of the table that lines 66-69 and 162-165 test and subscript
SectionOf(op) == IF op = "get_electrical_mix" THEN "electricity" ELSE "IoT"

\* whether the read tests `key not in self._factors` (lines 66, 162)
TestsSection(op) == op \in {"get_electrical_mix", "get_iot_impact_factor"}

\* self._factors[key] (lines 69, 165) on the table factors at that moment,
\* and the rest of the read on the section obtained
SubscriptAndFinish(factors, op, args) ==
    IF factors = None THEN Outcome("TypeError", None)
    ELSE IF SectionOf(op) \notin DOMAIN factors THEN Outcome("KeyError", None)
    ELSE IF op = "get_electrical_mix"
    THEN Outcome(NoneStr, ElectricalMixIn(factors.electricity, args[1]))
    ELSE Outcome(NoneStr, IotImpactIn(factors.IoT, args[1], args[2], args[3]))

\* self._factors.get(...) (lines 55, 116) on the table factors at that
\* moment, and the rest of the read
GetAndFinish(factors, op, args) ==
    IF factors = None THEN Outcome("AttributeError", None)
    ELSE IF op = "get_impact_factors"
    THEN Outcome(NoneStr, DictGet(factors, args[1], None))
    ELSE Outcome(NoneStr,
                 ConsumptionProfileIn(DictGet(factors, "consumption_profiles", None),
                                      args[1]))

\* ------------------------------------------------------------------------
\* Specification SpecAgg: aggregate_phase_impacts on arbitrary phase mappings
\* ------------------------------------------------------------------------
\* the variables of the use case while another component is under study
ExecIdle == execArgs = NotCalled /\ execRet = NotCalled /\ execRet2 = NotCalled

\* the variables of the calculator while another component is under study
CalcIdle ==
    /\ aggArgs = NotCalled /\ aggRet = NotCalled
    /\ mfgArgs = NotCalled /\ mfgRet = NotCalled /\ eolRet = NotCalled
    /\ useArgs = NotCalled /\ useRet = NotCalled /\ useRet2 = NotCalled

\* the variables of the stores while another component is under study
RepoIdle ==
    /\ csvFiles = NotCalled /\ config = NotCalled /\ _cache = NotCalled
    /\ heap = NotCalled /\ repoCall = NotCalled /\ memo = NotCalled
    /\ threads = NotCalled

FactorIdle ==
    factors_yml = NotCalled /\ _factors = NotCalled /\ reader = NotCalled

StoresIdle == RepoIdle /\ FactorIdle

\* the variables of SpecCompute while another component is under study
UcIdle == ucArgs = NotCalled /\ ucRet = NotCalled /\ ucRetYear = NotCalled

\* the variables of SpecContainer while another component is under study
DiIdle == _instance = NotCalled /\ built = NotCalled /\ calls = NotCalled

\* the variables of SpecMap while another component is under study
MapIdle ==
    /\ mapArgs = NotCalled /\ mapDevice = NotCalled
    /\ mapUsage = NotCalled /\ mapCalc = NotCalled /\ mapAgain = NotCalled

AggCriteria == {"gwp", "zz"}
AggValues == {Dec(15, -1), Dec(-2, 0)}
AggUnits == {"kgCO2eq", "MJ"}

AggImpactValues ==
    {ImpactValue(v, None, None, u, "CALC") : v \in AggValues, u \in AggUnits}

PhaseMappings ==
    UNION {[D -> AggImpactValues] : D \in SUBSET AggCriteria}

InitAgg ==
    /\ aggArgs \in [manufacturing : PhaseMappings, use : PhaseMappings,
                    end_of_life : PhaseMappings]
    /\ aggRet = NotCalled
    /\ mfgArgs = NotCalled /\ mfgRet = NotCalled /\ eolRet = NotCalled
    /\ useArgs = NotCalled /\ useRet = NotCalled /\ useRet2 = NotCalled
    /\ ExecIdle /\ StoresIdle /\ UcIdle /\ MapIdle /\ DiIdle

Aggregate ==
    /\ aggRet = NotCalled
    /\ aggRet' = [called |-> TRUE,
                  total |-> aggregate_phase_impacts(aggArgs.manufacturing,
                                                    aggArgs.use,
                                                    aggArgs.end_of_life)]
    /\ UNCHANGED <<aggArgs, mfgArgs, mfgRet, eolRet, useArgs, useRet, useRet2, execVars, storeVars, ucVars, mapVars, diVars>>

NextAgg == Aggregate

SpecAgg == InitAgg /\ [][NextAgg]_vars

\* ------------------------------------------------------------------------
\* Inputs of the calculator specifications
\* ------------------------------------------------------------------------
\* criteria lists: known criteria and one the unit map and the factor data
\* do not know, with repetitions
CriterionNames == {"gwp", "adp", "zz"}

CriteriaLists == UNION {[1..n -> CriterionNames] : n \in 0..MaxCriteria}

\* CPUConfiguration: tdp is a dataclass field (None or a Decimal); units is
\* not a field of the dataclass and exists only when a caller attached it
CpuConfigs ==
    {None,
     [tdp |-> None],
     [tdp |-> Dec(95, 0)],
     [tdp |-> Dec(150, 0), units |-> 2]}

RamLists ==
    {<<>>,
     <<[capacity_gb |-> 32]>>,
     <<[capacity_gb |-> 32, units |-> 2], [capacity_gb |-> 16]>>}

DiskLists ==
    {<<>>,
     <<[type |-> "hdd"]>>,
     <<[type |-> "ssd", units |-> 2], [type |-> NoneStr]>>}

DeviceConfigs == [cpu : CpuConfigs, ram : RamLists, disk : DiskLists]

EmptyDevice == [cpu |-> None, ram |-> <<>>, disk |-> <<>>]

\* impact-factor tables: category -> dict of floats
ImpactFactorTables ==
    {_get_impact_factors,
     EmptyDict,
     [cpu |-> [die_impact |-> FlFromDec(Dec(20, -1))],
      ssd |-> [impact |-> FlFromDec(Dec(75, -1))]],
     [cpu |-> [impact |-> FlFromDec(Dec(1, -1))],
      ram |-> [impact |-> FlFromDec(Dec(-3, 0))]]}

\* UsageConfiguration: location and workload
Workloads ==
    {None, EmptyDict, [time_workload |-> 50], [time_workload |-> 30],
     [load_percentage |-> 80]}

UsageConfigs == [location : {"FR"}, workload : Workloads]

\* electrical factors: criterion -> float
ElectricalFactorTables ==
    {_get_electrical_factors("FR"), EmptyDict, [gwp |-> FlFromDec(Dec(38, -2))]}

\* duration_hours, written as decimal literals
Durations == {Dec(0, 0), Dec(5, -1), Dec(24, 0), Dec(8760, 0)}

\* ------------------------------------------------------------------------
\* Specification SpecMfg: calculate_manufacturing_impact and
\* calculate_end_of_life_impact on one set of arguments
\* ------------------------------------------------------------------------
InitMfg ==
    /\ mfgArgs \in [device_config : DeviceConfigs, criteria : CriteriaLists,
                    impact_factors : ImpactFactorTables]
    /\ mfgRet = NotCalled /\ eolRet = NotCalled
    /\ aggArgs = NotCalled /\ aggRet = NotCalled
    /\ useArgs = NotCalled /\ useRet = NotCalled /\ useRet2 = NotCalled
    /\ ExecIdle /\ StoresIdle /\ UcIdle /\ MapIdle /\ DiIdle

CalcManufacturing ==
    /\ mfgArgs # NotCalled /\ mfgRet = NotCalled
    /\ mfgRet' = [called |-> TRUE,
                  ret |-> calculate_manufacturing_impact(mfgArgs.device_config,
                                                         mfgArgs.criteria,
                                                         mfgArgs.impact_factors)]
    /\ UNCHANGED <<aggArgs, aggRet, mfgArgs, eolRet, useArgs, useRet, useRet2, execVars, storeVars, ucVars, mapVars, diVars>>

CalcEndOfLife ==
    /\ mfgArgs # NotCalled /\ eolRet = NotCalled
    /\ eolRet' = [called |-> TRUE,
                  ret |-> calculate_end_of_life_impact(mfgArgs.device_config,
                                                       mfgArgs.criteria,
                                                       mfgArgs.impact_factors)]
    /\ UNCHANGED <<aggArgs, aggRet, mfgArgs, mfgRet, useArgs, useRet, useRet2, execVars, storeVars, ucVars, mapVars, diVars>>

NextMfg == CalcManufacturing \/ CalcEndOfLife

SpecMfg == InitMfg /\ [][NextMfg]_vars

\* ------------------------------------------------------------------------
\* Specification SpecUse: calculate_use_impact for a duration h and for 2h
\* ------------------------------------------------------------------------
InitUse ==
    /\ useArgs \in [device_config : DeviceConfigs, usage_config : UsageConfigs,
                    criteria : CriteriaLists, hours : Durations,
                    electrical_factors : ElectricalFactorTables]
    /\ useRet = NotCalled /\ useRet2 = NotCalled
    /\ aggArgs = NotCalled /\ aggRet = NotCalled
    /\ mfgArgs = NotCalled /\ mfgRet = NotCalled /\ eolRet = NotCalled
    /\ ExecIdle /\ StoresIdle /\ UcIdle /\ MapIdle /\ DiIdle

CalcUse ==
    /\ useArgs # NotCalled /\ useRet = NotCalled
    /\ useRet' = [called |-> TRUE,
                  ret |-> calculate_use_impact(useArgs.device_config,
                                               useArgs.usage_config,
                                               useArgs.criteria,
                                               FlFromDec(useArgs.hours),
                                               useArgs.electrical_factors)]
    /\ UNCHANGED <<aggArgs, aggRet, mfgArgs, mfgRet, eolRet, useArgs, useRet2, execVars, storeVars, ucVars, mapVars, diVars>>

CalcUseDouble ==
    /\ useArgs # NotCalled /\ useRet2 = NotCalled
    /\ useRet2' = [called |-> TRUE,
                   ret |-> calculate_use_impact(useArgs.device_config,
                                                useArgs.usage_config,
                                                useArgs.criteria,
                                                FlFromDec(DMul(Dec(2, 0), useArgs.hours)),
                                                useArgs.electrical_factors)]
    /\ UNCHANGED <<aggArgs, aggRet, mfgArgs, mfgRet, eolRet, useArgs, useRet, execVars, storeVars, ucVars, mapVars, diVars>>

NextUse == CalcUse \/ CalcUseDouble

SpecUse == InitUse /\ [][NextUse]_vars

\* ------------------------------------------------------------------------
\* Specification SpecExec: ComputeServerImpactUseCase.execute, and a second
\* execution whose input differs only in the usage location
\* ------------------------------------------------------------------------
Locations == {"FR", "ZZ", NoneStr}

ExecDeviceConfigs ==
    {None,
     EmptyDevice,
     [cpu |-> [tdp |-> None], ram |-> <<>>, disk |-> <<>>],
     [cpu |-> None, ram |-> <<[capacity_gb |-> 32]>>, disk |-> <<[type |-> "hdd"]>>],
     [cpu |-> [tdp |-> Dec(95, 0)],
      ram |-> <<[capacity_gb |-> 32, units |-> 2], [capacity_gb |-> 16]>>,
      disk |-> <<[type |-> "ssd", units |-> 2], [type |-> NoneStr]>>],
     [cpu |-> [tdp |-> Dec(150, 0), units |-> 2],
      ram |-> <<[capacity_gb |-> 32]>>,
      disk |-> <<>>]}

ExecWorkloads == {None, EmptyDict, [time_workload |-> 30]}

ExecUsageConfigs == [location : Locations, workload : ExecWorkloads] \cup {None}

ExecDurations == {None, Dec(0, 0), Dec(24, 0), Dec(17520, 0)}

\* the float passed as duration, or None
DurationArg(d) == IF d = None THEN None ELSE FlFromDec(d)

InitExec ==
    /\ execArgs \in [device_config : ExecDeviceConfigs,
                     usage_config : ExecUsageConfigs,
                     criteria : CriteriaLists,
                     duration : ExecDurations,
                     verbose : BOOLEAN]
    /\ execRet = NotCalled /\ execRet2 = NotCalled
    /\ aggArgs = NotCalled /\ aggRet = NotCalled
    /\ mfgArgs = NotCalled /\ mfgRet = NotCalled /\ eolRet = NotCalled
    /\ useArgs = NotCalled /\ useRet = NotCalled /\ useRet2 = NotCalled
    /\ StoresIdle /\ UcIdle /\ MapIdle /\ DiIdle

Execute ==
    /\ execArgs # NotCalled /\ execRet = NotCalled
    /\ execRet' = [called |-> TRUE,
                   out |-> execute(execArgs.device_config, execArgs.usage_config,
                                   execArgs.criteria, DurationArg(execArgs.duration),
                                   execArgs.verbose)]
    /\ UNCHANGED <<calcVars, execArgs, execRet2, storeVars, ucVars, mapVars, diVars>>

ExecuteElsewhere ==
    /\ execArgs # NotCalled /\ execRet2 = NotCalled
    /\ execArgs.usage_config # None
    /\ \E location \in Locations \ {execArgs.usage_config.location} :
          execRet2' = [called |-> TRUE,
                       location |-> location,
                       out |-> execute(execArgs.device_config,
                                       [execArgs.usage_config
                                            EXCEPT !.location = location],
                                       execArgs.criteria,
                                       DurationArg(execArgs.duration),
                                       execArgs.verbose)]
    /\ UNCHANGED <<calcVars, execArgs, execRet, storeVars, ucVars, mapVars, diVars>>

NextExec == Execute \/ ExecuteElsewhere

SpecExec == InitExec /\ [][NextExec]_vars

\* ------------------------------------------------------------------------
\* Specification SpecCompute: execute of each of the five use cases, and the
\* same call with a duration of one year
\* ------------------------------------------------------------------------
UseCaseConfigurations ==
    [server |-> {None, EmptyDevice,
                 [cpu |-> [tdp |-> Dec(95, 0)],
                  ram |-> <<[capacity_gb |-> 32]>>,
                  disk |-> <<[type |-> "ssd"]>>]},
     cloud |-> {None} \cup [instance_type : {"a1.large", "", NoneStr},
                            provider : {"aws", "", NoneStr}],
     component |-> {None} \cup [component_type : {"cpu", "", NoneStr},
                                configuration : {EmptyDict}],
     iot |-> {None, [archetype |-> "iot-device-default"]},
     terminal |-> {None, [archetype |-> "laptop-pro"]}]

UseCaseKinds == DOMAIN UseCaseConfigurations

UseCaseUsageConfigs == {None, [location |-> "FR", workload |-> None]}

UseCaseDurations == {None, Dec(0, 0), Dec(24, 0), Dec(8760, 0), Dec(17520, 0)}

UseCaseCalls ==
    UNION {[kind : {kind},
            configuration : UseCaseConfigurations[kind],
            usage_config : UseCaseUsageConfigs,
            criteria : {<<>>, <<"gwp", "zz">>},
            duration : UseCaseDurations,
            verbose : BOOLEAN] : kind \in UseCaseKinds}

InitCompute ==
    /\ ucArgs \in UseCaseCalls
    /\ ucRet = NotCalled /\ ucRetYear = NotCalled
    /\ CalcIdle /\ ExecIdle /\ StoresIdle /\ MapIdle /\ DiIdle

Compute ==
    /\ ucRet = NotCalled
    /\ ucRet' = [called |-> TRUE,
                 out |-> ExecuteUseCase(ucArgs.kind, ucArgs.configuration,
                                        ucArgs.usage_config, ucArgs.criteria,
                                        DurationArg(ucArgs.duration),
                                        ucArgs.verbose)]
    /\ UNCHANGED <<ucArgs, ucRetYear, calcVars, execVars, storeVars, mapVars, diVars>>

ComputeOneYear ==
    /\ ucRetYear = NotCalled
    /\ ucRetYear' = [called |-> TRUE,
                     out |-> ExecuteUseCase(ucArgs.kind, ucArgs.configuration,
                                            ucArgs.usage_config, ucArgs.criteria,
                                            FlFromInt(8760), ucArgs.verbose)]
    /\ UNCHANGED <<ucArgs, ucRet, calcVars, execVars, storeVars, mapVars, diVars>>

NextCompute == Compute \/ ComputeOneYear

SpecCompute == InitCompute /\ [][NextCompute]_vars

\* ------------------------------------------------------------------------
\* Specification SpecMap: a server request is mapped to the domain model and
\* the calculator runs on the mapped device configuration
\* ------------------------------------------------------------------------
CPUSchemas ==
    {None} \cup [units : {NoneInt, 1, 2},
                 core_units : {NoneInt, 24},
                 tdp : {None, FlFromDec(Dec(95, 0))}]

RAMSchemas == [units : {NoneInt, 2}, capacity : {None, FlFromDec(Dec(32, 0))}]

RAMSchemaLists ==
    {NoneList} \cup {<<r>> : r \in RAMSchemas}
        \cup {<<[units |-> 2, capacity |-> None],
                [units |-> NoneInt, capacity |-> FlFromDec(Dec(32, 0))]>>}

DiskSchemaLists ==
    {NoneList,
     <<[units |-> NoneInt, type |-> "ssd", capacity |-> None]>>,
     <<[units |-> 2, type |-> "hdd", capacity |-> FlFromDec(Dec(400, 0))],
       [units |-> NoneInt, type |-> NoneStr, capacity |-> None]>>}

ServerRequestSchemas ==
    [configuration : {None} \cup [cpu : CPUSchemas, ram : RAMSchemaLists,
                                  disk : DiskSchemaLists]]

UsageSchemas ==
    [usage_location : {NoneStr, "", "FR"},
     hours_life_time : {None, FlFromDec(Dec(24, 0))},
     time_workload : {None, FlFromDec(Dec(30, 0))},
     workload : {None, EmptyDict, [time_workload |-> FlFromDec(Dec(30, 0))]}]

InitMap ==
    /\ mapArgs \in [server : ServerRequestSchemas, usage : UsageSchemas]
    /\ mapDevice = NotCalled /\ mapUsage = NotCalled /\ mapCalc = NotCalled
    /\ mapAgain = NotCalled
    /\ CalcIdle /\ ExecIdle /\ StoresIdle /\ UcIdle /\ DiIdle

ToDeviceConfiguration ==
    /\ mapDevice = NotCalled
    /\ mapDevice' = [called |-> TRUE,
                     ret |-> to_device_configuration(mapArgs.server)]
    /\ UNCHANGED <<mapArgs, mapUsage, mapCalc, mapAgain, calcVars, execVars, storeVars, ucVars, diVars>>

ToDomain ==
    /\ mapUsage = NotCalled
    /\ mapUsage' = [called |-> TRUE, ret |-> to_domain(mapArgs.usage)]
    /\ UNCHANGED <<mapArgs, mapDevice, mapCalc, mapAgain, calcVars, execVars, storeVars, ucVars, diVars>>

\* the calculator on the mapped device configuration: the manufacturing
\* impacts and the estimated power
CalculateMapped ==
    /\ mapDevice # NotCalled /\ mapCalc = NotCalled
    /\ mapCalc' = [called |-> TRUE,
                   manufacturing |->
                       calculate_manufacturing_impact(mapDevice.ret, <<"gwp">>,
                                                      _get_impact_factors),
                   power |-> _estimate_device_power(mapDevice.ret)]
    /\ UNCHANGED <<mapArgs, mapDevice, mapUsage, mapAgain, calcVars, execVars, storeVars, ucVars, diVars>>

\* float(x) for an Optional[Decimal]: pydantic's coercion of a field
\* declared Optional[float]
FloatOrNone(x) == IF x # None THEN FlFromDec(x) ELSE None

\* a resolved device configuration submitted as a request: every schema
\* field takes the value of the attribute the mapper filled from it; the
\* configuration holds no unit count
AsServerRequest(device) ==
    [configuration |->
        [cpu |-> IF device.cpu = None THEN None
                 ELSE [units |-> NoneInt,
                       core_units |-> device.cpu.core_units,
                       tdp |-> FloatOrNone(device.cpu.tdp)],
         ram |-> [i \in 1..Len(device.ram) |->
                     [units |-> NoneInt,
                      capacity |-> FloatOrNone(device.ram[i].capacity_gb)]],
         disk |-> [i \in 1..Len(device.disk) |->
                      [units |-> NoneInt,
                       type |-> device.disk[i].type,
                       capacity |-> FloatOrNone(device.disk[i].capacity_gb)]]]]

\* a resolved usage configuration submitted as a usage schema
AsUsageSchema(usage) ==
    [usage_location |-> usage.location,
     hours_life_time |-> FloatOrNone(usage.hours_life_time),
     time_workload |-> None,
     workload |-> IF usage.workload = None THEN None
                  ELSE [k \in DOMAIN usage.workload |->
                           FlFromDec(usage.workload[k])]]

\* both mappers on the configurations they returned
ResolveAgain ==
    /\ mapDevice # NotCalled /\ mapUsage # NotCalled /\ mapAgain = NotCalled
    /\ mapAgain' = [called |-> TRUE,
                    device |-> to_device_configuration(
                                   AsServerRequest(mapDevice.ret)),
                    usage |-> to_domain(AsUsageSchema(mapUsage.ret))]
    /\ UNCHANGED <<mapArgs, mapDevice, mapUsage, mapCalc, calcVars, execVars, storeVars, ucVars, diVars>>

NextMap == ToDeviceConfiguration \/ ToDomain \/ CalculateMapped \/ ResolveAgain

SpecMap == InitMap /\ [][NextMap]_vars

\* ------------------------------------------------------------------------
\* Specification SpecContainer: sequences of get_container and
\* DIContainer.reset_instance calls
\* ------------------------------------------------------------------------
InitContainer ==
    /\ _instance = NoneRef
    /\ built = <<>>
    /\ calls = <<>>
    /\ CalcIdle /\ ExecIdle /\ StoresIdle /\ UcIdle /\ MapIdle

GetContainer ==
    /\ Len(calls) < MaxCalls
    /\ _instance' = get_container(_instance, built)._instance
    /\ built' = get_container(_instance, built).built
    /\ calls' = Append(calls, [op |-> "get_container",
                               ret |-> get_container(_instance, built).ret])
    /\ UNCHANGED <<calcVars, execVars, storeVars, ucVars, mapVars>>

ResetInstance ==
    /\ Len(calls) < MaxCalls
    /\ _instance' = reset_instance
    /\ calls' = Append(calls, [op |-> "reset_instance", ret |-> NoneRef])
    /\ UNCHANGED <<built, calcVars, execVars, storeVars, ucVars, mapVars>>

NextContainer == GetContainer \/ ResetInstance

SpecContainer == InitContainer /\ [][NextContainer]_vars

\* ------------------------------------------------------------------------
\* Specification SpecRepo: lookups and clear_cache of one ArchetypeRepository,
\* one call at a time
\* ------------------------------------------------------------------------
ServerIds == {Default, <<"platform_compute_medium">>, <<"dellR740">>, <<"nothing">>}
Providers == {<<"aws">>, <<"aws", ":", "a1">>, <<"gcp">>}
InstanceTypes == {<<"a1", ":", "b">>, <<"b">>, Default}
ComponentTypes == {<<"cpu">>, <<"gpu">>}
ComponentIds == {Default, <<"x">>, <<"nothing">>}
IotIds == {Default, <<"iot-device-default">>, <<"nothing">>}
TerminalIds == {Default, <<"laptop-pro">>, <<"nothing">>}

Configs == {EmptyDict, [default_server |-> <<"dellR740">>]}

\* a row of an archetype CSV as get_archetype returns it
ArchetypeRow(n) == [vcpu |-> [default |-> n]]

ServerCsv ==
    <<"archetypes/server.csv">> :>
        ((<<"platform_compute_medium">> :> ArchetypeRow(1))
         @@ (<<"dellR740">> :> ArchetypeRow(2)))

FullDataDir ==
    ServerCsv
    @@ (<<"archetypes/cloud/", "aws", ".csv">> :>
            (<<"a1", ":", "b">> :> ArchetypeRow(3)))
    @@ (<<"archetypes/components/", "cpu", ".csv">> :> (<<"x">> :> ArchetypeRow(4)))
    @@ (<<"archetypes/iot_device.csv">> :>
            (<<"iot-device-default">> :> ArchetypeRow(5)))
    @@ (<<"archetypes/user_terminal.csv">> :> (<<"laptop-pro">> :> ArchetypeRow(6)))

DataDirs == {FullDataDir, ServerCsv}

InitRepo ==
    /\ csvFiles \in DataDirs
    /\ config \in Configs
    /\ _cache = EmptyDict
    /\ heap = <<>>
    /\ repoCall = NotCalled
    /\ memo = EmptyDict
    /\ threads = NotCalled
    /\ FactorIdle /\ CalcIdle /\ ExecIdle /\ UcIdle /\ MapIdle /\ DiIdle

\* the state after a lookup with the given plan and outcome, and its record
RepoStep(op, args, plan, out) ==
    /\ Len(out.heap) <= MaxObjects
    /\ _cache' = out.cache
    /\ heap' = out.heap
    /\ repoCall' = [op |-> op, args |-> args, plan |-> plan,
                    ret |-> out.ret, read |-> out.read]
    /\ memo' = IF out.ret # NoneRef /\ <<op, args>> \notin DOMAIN memo
               THEN (<<op, args>> :> out.ret) @@ memo
               ELSE memo
    /\ UNCHANGED <<csvFiles, config, threads, factorVars, calcVars, execVars, ucVars, mapVars, diVars>>

RepoLookup(op, args) ==
    RepoStep(op, args, PlanOf(config, op, args),
             Lookup(PlanOf(config, op, args), _cache, heap, csvFiles))

GetServerArchetype ==
    \E archetype_id \in ServerIds :
        RepoLookup("get_server_archetype", <<archetype_id>>)

GetCloudInstanceArchetype ==
    \E instance_type \in InstanceTypes, provider \in Providers :
        RepoLookup("get_cloud_instance_archetype", <<instance_type, provider>>)

GetComponentArchetype ==
    \E archetype_id \in ComponentIds, component_type \in ComponentTypes :
        RepoLookup("get_component_archetype", <<archetype_id, component_type>>)

GetIotDeviceArchetype ==
    \E archetype_id \in IotIds :
        RepoLookup("get_iot_device_archetype", <<archetype_id>>)

GetUserTerminalArchetype ==
    \E archetype_id \in TerminalIds :
        RepoLookup("get_user_terminal_archetype", <<archetype_id>>)

\* the dicts of the emptied cache are referred to by nothing the model
\* keeps, so the heap is emptied with it
ClearCache ==
    /\ repoCall # NotCalled
    /\ _cache' = EmptyDict
    /\ heap' = <<>>
    /\ memo' = EmptyDict
    /\ repoCall' = [op |-> "clear_cache"]
    /\ UNCHANGED <<csvFiles, config, threads, factorVars, calcVars, execVars, ucVars, mapVars, diVars>>

NextRepo ==
    \/ GetServerArchetype
    \/ GetCloudInstanceArchetype
    \/ GetComponentArchetype
    \/ GetIotDeviceArchetype
    \/ GetUserTerminalArchetype
    \/ ClearCache

SpecRepo == InitRepo /\ [][NextRepo]_vars

\* ------------------------------------------------------------------------
\* Specification SpecRepoShared: lookups and clear_cache of one repository
\* whose callers modify the dicts returned to them.  The lookups are those
\* whose cache key holds one argument.
\* ------------------------------------------------------------------------
\* what a caller does to a dict it holds: archetype["edited"] = True
Edited(archetype) == [edited |-> TRUE] @@ archetype

CallerModifies ==
    /\ repoCall # NotCalled
    /\ \E ref \in 1..Len(heap) :
          /\ heap[ref] # Edited(heap[ref])
          /\ heap' = [heap EXCEPT ![ref] = Edited(@)]
          /\ repoCall' = [op |-> "caller_modifies", ref |-> ref]
    /\ UNCHANGED <<csvFiles, config, _cache, memo, threads, factorVars, calcVars, execVars, ucVars, mapVars, diVars>>

NextRepoShared ==
    \/ GetServerArchetype
    \/ GetIotDeviceArchetype
    \/ GetUserTerminalArchetype
    \/ ClearCache
    \/ CallerModifies

SpecRepoShared == InitRepo /\ [][NextRepoShared]_vars

\* ------------------------------------------------------------------------
\* Specification SpecRepoConc: NumThreads threads call lookups and
\* clear_cache on one ArchetypeRepository; a step is a statement that reads
\* or writes self._cache
\* ------------------------------------------------------------------------
Threads == 1..NumThreads

ConcRequests ==
    {[op |-> "get_server_archetype", args |-> <<archetype_id>>] :
         archetype_id \in {Default, <<"platform_compute_medium">>, <<"nothing">>}}
    \cup {[op |-> "get_component_archetype", args |-> <<<<"x">>, component_type>>] :
              component_type \in ComponentTypes}

IdleThread == [pc |-> "idle"]

Running(pc, plan, ret, raised) ==
    [pc |-> pc, plan |-> plan, ret |-> ret, raised |-> raised]

InitRepoConc ==
    /\ csvFiles = FullDataDir
    /\ config = EmptyDict
    /\ _cache = EmptyDict
    /\ heap = <<>>
    /\ repoCall = NotCalled
    /\ memo = EmptyDict
    /\ threads = [t \in Threads |-> IdleThread]
    /\ FactorIdle /\ CalcIdle /\ ExecIdle /\ UcIdle /\ MapIdle /\ DiIdle

ConcUnchanged == UNCHANGED <<csvFiles, config, repoCall, memo, factorVars, calcVars, execVars, ucVars, mapVars, diVars>>

\* lines 46-50 (105-106): the key is built and `cache_key in self._cache`
\* evaluated
TestCached(t, plan) ==
    /\ threads[t].pc = "idle"
    /\ threads' = [threads EXCEPT ![t] =
           Running(IF plan.cache_key \in DOMAIN _cache THEN "hit" ELSE "load",
                   plan, NoneRef, NoneStr)]
    /\ UNCHANGED <<_cache, heap>>
    /\ ConcUnchanged

EnterLookup ==
    \E t \in Threads, request \in ConcRequests :
        TestCached(t, PlanOf(config, request.op, request.args))

\* line 51 (107): return self._cache[cache_key]
ReturnCached ==
    \E t \in Threads :
        /\ threads[t].pc = "hit"
        /\ threads' = [threads EXCEPT ![t] =
               IF threads[t].plan.cache_key \in DOMAIN _cache
               THEN Running("done", threads[t].plan,
                            _cache[threads[t].plan.cache_key], NoneStr)
               ELSE Running("done", threads[t].plan, NoneRef, "KeyError")]
        /\ UNCHANGED <<_cache, heap>>
        /\ ConcUnchanged

\* the thread and the heap after lines 53-56 (109-119) obtained archetype
Loaded(t, plan, archetype) ==
    IF Truthy(archetype)
    THEN /\ Len(heap) < MaxObjects
         /\ heap' = Append(heap, archetype)
         /\ threads' = [threads EXCEPT ![t] =
                Running("store", plan, Len(heap) + 1, NoneStr)]
    ELSE /\ heap' = heap
         /\ threads' = [threads EXCEPT ![t] =
                Running("done", plan, NoneRef, NoneStr)]

\* lines 53-56 and 59 (109-119 and 122): the table is read, unless
\* os.path.exists is tested and fails
LoadArchetype ==
    \E t \in Threads :
        /\ threads[t].pc = "load"
        /\ Loaded(t, threads[t].plan,
                  IF threads[t].plan.exists_checked
                     /\ ~exists(csvFiles, threads[t].plan.csv_path)
                  THEN None
                  ELSE get_archetype(csvFiles, threads[t].plan.archetype_id,
                                     threads[t].plan.csv_path))
        /\ UNCHANGED _cache
        /\ ConcUnchanged

\* lines 57-58 (120-121): self._cache[cache_key] = archetype; return archetype
StoreAndReturn ==
    \E t \in Threads :
        /\ threads[t].pc = "store"
        /\ _cache' = (threads[t].plan.cache_key :> threads[t].ret) @@ _cache
        /\ threads' = [threads EXCEPT ![t].pc = "done"]
        /\ UNCHANGED heap
        /\ ConcUnchanged

\* the caller has its result and the thread is free for another call
Leave ==
    \E t \in Threads :
        /\ threads[t].pc = "done"
        /\ threads' = [threads EXCEPT ![t] = IdleThread]
        /\ UNCHANGED <<_cache, heap>>
        /\ ConcUnchanged

\* line 235, by any thread that is not inside a lookup
ClearCacheConc ==
    /\ \E t \in Threads : threads[t].pc = "idle"
    /\ _cache' = EmptyDict
    /\ UNCHANGED <<heap, threads>>
    /\ ConcUnchanged

NextRepoConc ==
    \/ EnterLookup
    \/ ReturnCached
    \/ LoadArchetype
    \/ StoreAndReturn
    \/ Leave
    \/ ClearCacheConc

SpecRepoConc == InitRepoConc /\ [][NextRepoConc]_vars

\* ------------------------------------------------------------------------
\* Specification SpecFactor: one read of a FactorProvider interleaved with
\* reload_factors, while factors.yml is rewritten; a step is a statement
\* that reads or writes self._factors
\* ------------------------------------------------------------------------
Fl(n, k) == FlFromDec(Dec(n, k))

ElectricityFR == [gwp |-> Fl(98, -3)]
ElectricityFrance == [gwp |-> Fl(5, -2)]

FullFactors ==
    [cpu |-> [impact |-> Fl(20, 0)],
     electricity |-> [FRA |-> ElectricityFR,
                      France |-> ElectricityFrance,
                      available_countries |->
                          OrderedDict(<< <<"France", "FR">>,
                                         <<"Sverige", "SE">> >>)],
     consumption_profiles |-> [cpu |-> [a |-> Fl(35, 0)]],
     IoT |-> [PROCESSING |->
                 [HSL1 |-> [manufacture |-> [gwp |-> Fl(15, -1)],
                            eol |-> [gwp |-> Fl(25, -2)]],
                  HSL2 |-> [manufacture |-> [gwp |-> Fl(2, 0)]]]]]

UpdatedFactors ==
    [cpu |-> [impact |-> Fl(30, 0)],
     electricity |-> [FRA |-> ElectricityFrance],
     IoT |-> [PROCESSING |->
                 [HSL1 |-> [manufacture |-> [gwp |-> Fl(3, 0)],
                            eol |-> [gwp |-> Fl(1, 0)]]]]]

HardwareOnlyFactors == [cpu |-> [impact |-> Fl(20, 0)]]

\* sections that are present and empty
EmptySectionsFactors ==
    [electricity |-> EmptyDict, consumption_profiles |-> EmptyDict,
     IoT |-> [PROCESSING |-> EmptyDict]]

\* a code that is a direct key and the code of an alias (SE), and a code
\* with two aliases of which only the second has an entry (FR)
AliasFactors ==
    [electricity |-> [SE |-> ElectricityFR,
                      Frankreich |-> ElectricityFrance,
                      available_countries |->
                          OrderedDict(<< <<"Sverige", "SE">>, <<"France", "FR">>,
                                         <<"Frankreich", "FR">> >>)]]

\* the documents factors.yml may hold; None is the empty document
FactorDocuments ==
    {FullFactors, UpdatedFactors, HardwareOnlyFactors, EmptySectionsFactors,
     AliasFactors, None, FactorsMissing}

FactorReads ==
    {[op |-> "get_impact_factors", args |-> <<c>>] : c \in {"cpu", "zz"}}
    \cup {[op |-> "get_electrical_mix", args |-> <<c>>] :
              c \in {"FRA", "FR", "SE", "ZZ", "available_countries"}}
    \cup {[op |-> "get_consumption_profile_factors", args |-> <<c>>] :
              c \in {"cpu", "zz"}}
    \cup {[op |-> "get_iot_impact_factor", args |-> <<b, h, "gwp">>] :
              b \in {"PROCESSING", "SENSING"}, h \in {"HSL1", "HSL2"}}

IdleReader == [pc |-> "idle"]

\* a read past its first statement: where it is, what it returned or raised,
\* and the tables self._factors has held since it began
Reading(pc, read, out, seen) ==
    [pc |-> pc, op |-> read.op, args |-> read.args,
     ret |-> out.value, raised |-> out.raised, seen |-> seen]

InitFactor ==
    /\ factors_yml \in FactorDocuments
    /\ _factors = _load_factors(factors_yml)
    /\ reader = IdleReader
    /\ RepoIdle /\ CalcIdle /\ ExecIdle /\ UcIdle /\ MapIdle /\ DiIdle

FactorUnchanged == UNCHANGED <<repoVars, calcVars, execVars, ucVars, mapVars, diVars>>

\* the file is rewritten between two loads
WriteFactorsYml ==
    /\ \E document \in FactorDocuments \ {factors_yml} : factors_yml' = document
    /\ UNCHANGED <<_factors, reader>>
    /\ FactorUnchanged

\* lines 184-189 and 35-41: one assignment to self._factors
ReloadFactors ==
    /\ _factors' = _load_factors(factors_yml)
    /\ reader' = IF reader.pc \in {"idle", "done"} THEN reader
                 ELSE [reader EXCEPT !.seen = @ \cup {_load_factors(factors_yml)}]
    /\ UNCHANGED factors_yml
    /\ FactorUnchanged

\* lines 52, 66, 112, 162: `not self._factors`
TestFactors ==
    /\ reader.pc = "idle"
    /\ \E read \in FactorReads :
          reader' = IF ~Truthy(_factors)
                    THEN Reading("done", read, Outcome(NoneStr, None), {_factors})
                    ELSE Reading(IF TestsSection(read.op) THEN "contains" ELSE "get",
                                 read, Outcome(NoneStr, None), {_factors})
    /\ UNCHANGED <<factors_yml, _factors>>
    /\ FactorUnchanged

\* lines 66, 162: `key not in self._factors`
TestSection ==
    /\ reader.pc = "contains"
    /\ reader' = IF _factors = None
                 THEN [reader EXCEPT !.pc = "done", !.raised = "TypeError"]
                 ELSE IF SectionOf(reader.op) \notin DOMAIN _factors
                 THEN [reader EXCEPT !.pc = "done"]
                 ELSE [reader EXCEPT !.pc = "subscript"]
    /\ UNCHANGED <<factors_yml, _factors>>
    /\ FactorUnchanged

\* lines 69-83, 165-182: self._factors[key] and the rest of the read
SubscriptFactors ==
    /\ reader.pc = "subscript"
    /\ reader' = Reading("done", reader,
                         SubscriptAndFinish(_factors, reader.op, reader.args),
                         reader.seen)
    /\ UNCHANGED <<factors_yml, _factors>>
    /\ FactorUnchanged

\* lines 55, 116-120: self._factors.get(...) and the rest of the read
GetFromFactors ==
    /\ reader.pc = "get"
    /\ reader' = Reading("done", reader,
                         GetAndFinish(_factors, reader.op, reader.args),
                         reader.seen)
    /\ UNCHANGED <<factors_yml, _factors>>
    /\ FactorUnchanged

\* the caller has its result
FinishRead ==
    /\ reader.pc = "done"
    /\ reader' = IdleReader
    /\ UNCHANGED <<factors_yml, _factors>>
    /\ FactorUnchanged

NextFactor ==
    \/ WriteFactorsYml
    \/ ReloadFactors
    \/ TestFactors
    \/ TestSection
    \/ SubscriptFactors
    \/ GetFromFactors
    \/ FinishRead

SpecFactor == InitFactor /\ [][NextFactor]_vars

\* ------------------------------------------------------------------------
\* Specification SpecExecStores: ComputeServerImpactUseCase.execute on a use
\* case built over an archetype repository and a factor provider, and a
\* second execution at another location or after the contents of the two
\* stores were replaced
\* ------------------------------------------------------------------------
InjectedFactors == [electricity |-> [FR |-> [gwp |-> Fl(98, -3)]]]
ReplacedFactors == [electricity |-> [FR |-> [gwp |-> Fl(5, -2)]]]

\* __init__, lines 33-46: the use case keeps the two stores it is given;
\* nothing has been looked up or read yet
InitExecStores ==
    /\ execArgs \in [device_config : ExecDeviceConfigs,
                     usage_config : ExecUsageConfigs,
                     criteria : CriteriaLists,
                     duration : ExecDurations,
                     verbose : BOOLEAN]
    /\ execRet = NotCalled /\ execRet2 = NotCalled
    /\ csvFiles = FullDataDir /\ config = EmptyDict
    /\ _cache = EmptyDict /\ heap = <<>> /\ memo = EmptyDict
    /\ repoCall = NotCalled /\ threads = NotCalled
    /\ factors_yml = InjectedFactors
    /\ _factors = _load_factors(InjectedFactors)
    /\ reader = IdleReader
    /\ CalcIdle /\ UcIdle /\ MapIdle /\ DiIdle

\* the backing table and the factor table are replaced after the first
\* execution
ReplaceStores ==
    /\ execRet # NotCalled /\ execRet2 = NotCalled
    /\ csvFiles = FullDataDir
    /\ csvFiles' = ServerCsv
    /\ factors_yml' = ReplacedFactors
    /\ _factors' = _load_factors(ReplacedFactors)
    /\ UNCHANGED <<config, _cache, heap, repoCall, memo, threads, reader, calcVars, execVars, ucVars, mapVars, diVars>>

\* execute over the replaced stores, at any location
ExecuteOnOtherStores ==
    /\ execRet # NotCalled /\ execRet2 = NotCalled
    /\ csvFiles = ServerCsv
    /\ execArgs.usage_config # None
    /\ \E location \in Locations :
          execRet2' = [called |-> TRUE,
                       location |-> location,
                       factors |-> _factors,
                       out |-> execute(execArgs.device_config,
                                       [execArgs.usage_config
                                            EXCEPT !.location = location],
                                       execArgs.criteria,
                                       DurationArg(execArgs.duration),
                                       execArgs.verbose)]
    /\ UNCHANGED <<calcVars, execArgs, execRet, storeVars, ucVars, mapVars, diVars>>

NextExecStores ==
    \/ Execute
    \/ ExecuteElsewhere
    \/ ReplaceStores
    \/ ExecuteOnOtherStores

SpecExecStores == InitExecStores /\ [][NextExecStores]_vars

\* ------------------------------------------------------------------------
\* Properties of aggregate_phase_impacts
\* ------------------------------------------------------------------------
\* value of a Decimal in units of 10^-3 (every Decimal of SpecAgg is a
\* multiple of 10^-3)
Milli(d) == DCoef(d, -3)

AggPhases == <<aggArgs.manufacturing, aggArgs.use, aggArgs.end_of_life>>

RECURSIVE SumOverPhases(_, _)
SumOverPhases(c, i) ==
    IF i = 0 THEN 0
    ELSE (IF c \in DOMAIN AggPhases[i] THEN Milli(AggPhases[i][c].value) ELSE 0)
         + SumOverPhases(c, i - 1)

\* C1: aggregate_phase_impacts returns exactly one entry for every criterion
\* present in at least one phase mapping and none for any other criterion;
\* the entry's value is the sum of the criterion's values over the phases
\* that contain it and its source is AGGREGATED.
C1_AggregateIsUnionSum ==
    aggRet.called =>
        /\ DOMAIN aggRet.total =
              {c \in AggCriteria : \E i \in 1..3 : c \in DOMAIN AggPhases[i]}
        /\ \A c \in DOMAIN aggRet.total :
              /\ Milli(aggRet.total[c].value) = SumOverPhases(c, 3)
              /\ aggRet.total[c].source = "AGGREGATED"

\* a call in which one criterion is present in two phases only and the
\* other criterion in the end-of-life phase only
C1_Witness ==
    /\ aggRet.called
    /\ DOMAIN aggArgs.manufacturing = {"gwp"}
    /\ DOMAIN aggArgs.use = {"gwp"}
    /\ DOMAIN aggArgs.end_of_life = {"zz"}
    /\ DOMAIN aggRet.total = {"gwp", "zz"}

\* two phases of the call that both contain criterion c give it different
\* units
UnitsDisagree(c) ==
    \E i, j \in 1..3 :
        /\ c \in DOMAIN AggPhases[i] /\ c \in DOMAIN AggPhases[j]
        /\ AggPhases[i][c].unit # AggPhases[j][c].unit

\* Claim C16: when two phases that both contain a criterion disagree on its
\* unit, aggregation does not return a total for that criterion (it reports
\* the mismatch instead of picking the unit of one phase).
C16_UnitMismatchIsReported ==
    aggRet.called =>
        \A c \in AggCriteria : UnitsDisagree(c) => c \notin DOMAIN aggRet.total

\* ------------------------------------------------------------------------
\* Properties of calculate_use_impact
\* ------------------------------------------------------------------------
UseBothCalled == useRet.called /\ useRet2.called

\* C2 (as claimed): the value returned for duration 2h is exactly twice the
\* value returned for duration h, for every criterion.
C2_ExactlyTwice ==
    UseBothCalled =>
        \A c \in DOMAIN useRet.ret :
            useRet2.ret[c].value = DMul(Dec(2, 0), useRet.ret[c].value)

\* C2 (amended): use-phase impact scales linearly with duration within
\* floating-point tolerance: for every criterion, the value returned for 2h
\* and twice the value returned for h are decimals that convert to the same
\* float.
C2_TwiceWithinFloatTolerance ==
    UseBothCalled =>
        /\ DOMAIN useRet2.ret = DOMAIN useRet.ret
        /\ \A c \in DOMAIN useRet.ret :
              FlFromDec(useRet2.ret[c].value)
                  = FlFromDec(DMul(Dec(2, 0), useRet.ret[c].value))

\* both calls made, on a device with a CPU and a workload, with a non-zero
\* impact whose doubled decimal is not the decimal returned for 2h
C2_Witness ==
    /\ UseBothCalled
    /\ useArgs.device_config.cpu # None
    /\ HasWorkload(useArgs.usage_config)
    /\ \E c \in DOMAIN useRet.ret :
          /\ useRet.ret[c].value # DZero
          /\ useRet2.ret[c].value # DMul(Dec(2, 0), useRet.ret[c].value)

\* the fractional time at workload of a usage: the share its workload
\* mapping gives, the default share when it carries no mapping
TimeAtWorkload(usage_config) ==
    IF HasWorkload(usage_config) THEN TimeWorkload(usage_config)
    ELSE FlDiv(FlFromInt(DEFAULT_WORKLOAD_PERCENTAGE), FlFromInt(100))

\* Claim C25: the use-phase value of a criterion is power x duration in
\* hours x fractional time at workload x the electrical-mix factor of the
\* criterion, the power being estimated bottom-up in kW; the fraction is
\* applied in every computation, whether or not the usage carries a
\* workload mapping.
C25_UseValueAppliesWorkloadFraction ==
    useRet.called =>
        \A c \in DOMAIN useRet.ret :
            useRet.ret[c].value =
                DecimalOfStr(
                    FlMul(FlMul(FlMul(FlDiv(_estimate_device_power(
                                                useArgs.device_config),
                                            FlFromInt(1000)),
                                      FlFromDec(useArgs.hours)),
                                TimeAtWorkload(useArgs.usage_config)),
                          DictGet(useArgs.electrical_factors, c, FlZero)))

\* ------------------------------------------------------------------------
\* Properties of calculate_manufacturing_impact
\* ------------------------------------------------------------------------
\* C4: for a device with no CPU, no RAM and no disk the manufacturing value
\* is 0 for every requested criterion, whatever the factor table contains.
C4_EmptyDeviceIsZero ==
    (mfgRet.called /\ mfgArgs.device_config = EmptyDevice) =>
        /\ DOMAIN mfgRet.ret = Elems(mfgArgs.criteria)
        /\ \A c \in DOMAIN mfgRet.ret : mfgRet.ret[c].value = DZero

\* the empty device evaluated against a table that has factors for every
\* category, for two distinct criteria
C4_Witness ==
    /\ mfgRet.called
    /\ mfgArgs.device_config = EmptyDevice
    /\ mfgArgs.impact_factors = _get_impact_factors
    /\ DOMAIN mfgRet.ret = {"gwp", "zz"}

\* the device with the capacity of every memory module halved
WithHalvedRam(device) ==
    [device EXCEPT
        !.ram = [i \in 1..Len(@) |->
                    [@[i] EXCEPT !.capacity_gb = @ \div 2]]]

\* Claim C24: for a fixed criterion the manufacturing impact is the sum over
\* the present components of base factor x units x scale factor, the scale
\* factor following the die size (CPU) or the capacity (RAM, disk); an
\* absent component contributes 0.  Hence the empty device costs nothing,
\* and a device with memory does not cost the same once the capacity of
\* its modules is halved.
C24_ManufacturingScalesWithCapacity ==
    mfgRet.called =>
        \A c \in DOMAIN mfgRet.ret :
            /\ mfgArgs.device_config = EmptyDevice =>
                   mfgRet.ret[c].value = DZero
            /\ (mfgArgs.device_config.ram # <<>>
                /\ "ram" \in DOMAIN mfgArgs.impact_factors) =>
                   calculate_manufacturing_impact(
                       WithHalvedRam(mfgArgs.device_config),
                       mfgArgs.criteria, mfgArgs.impact_factors)[c].value
                   # mfgRet.ret[c].value

\* min_value <= value <= max_value for every ImpactValue of a phase
WithinBounds(impacts) ==
    \A criterion \in DOMAIN impacts :
        /\ DLe(impacts[criterion].min_value, impacts[criterion].value)
        /\ DLe(impacts[criterion].value, impacts[criterion].max_value)

\* Claim C30: every ImpactValue returned by calculate_manufacturing_impact,
\* calculate_use_impact and calculate_end_of_life_impact satisfies
\* min_value <= value <= max_value.
C30_ValueWithinMinAndMax ==
    /\ mfgRet.called => WithinBounds(mfgRet.ret)
    /\ eolRet.called => WithinBounds(eolRet.ret)
    /\ useRet.called => WithinBounds(useRet.ret)
    /\ useRet2.called => WithinBounds(useRet2.ret)

\* ------------------------------------------------------------------------
\* Properties of ComputeServerImpactUseCase.execute
\* ------------------------------------------------------------------------
ExecReturned(r) == r.called /\ r.out.raised = ""

\* C3: two server computations whose inputs differ only in the usage
\* location return identical manufacturing impacts and identical
\* end-of-life impacts for every criterion.
C3_LocationChangesOnlyUse ==
    (execRet.called /\ execRet2.called) =>
        /\ ExecReturned(execRet) <=> ExecReturned(execRet2)
        /\ ExecReturned(execRet) =>
              /\ execRet2.out.value.phases.manufacturing
                     = execRet.out.value.phases.manufacturing
              /\ execRet2.out.value.phases.end_of_life
                     = execRet.out.value.phases.end_of_life

\* two completed computations at different locations for a device with
\* components and a criteria list with two distinct criteria
C3_Witness ==
    /\ ExecReturned(execRet) /\ ExecReturned(execRet2)
    /\ execArgs.usage_config.location = "FR" /\ execRet2.location = "ZZ"
    /\ execArgs.device_config.cpu # None
    /\ execArgs.device_config.ram # <<>>
    /\ DOMAIN execRet2.out.value.phases.manufacturing = {"gwp", "adp"}
    /\ execRet.out.value.phases.manufacturing["gwp"].value # DZero

C13_EndOfLifeIsZero ==
    eolRet.called =>
        /\ DOMAIN eolRet.ret = Elems(mfgArgs.criteria)
        /\ \A c \in DOMAIN eolRet.ret :
               /\ eolRet.ret[c].value = DZero
               /\ eolRet.ret[c].min_value = DZero
               /\ eolRet.ret[c].max_value = DZero
               /\ eolRet.ret[c].source = "NOT_IMPLEMENTED"

\* the end of life of a device with components and known factors was
\* computed for two criteria
C13_Witness ==
    /\ eolRet.called
    /\ mfgArgs.device_config.cpu # None
    /\ mfgArgs.device_config.ram # <<>>
    /\ mfgArgs.impact_factors = _get_impact_factors
    /\ DOMAIN eolRet.ret = {"gwp", "zz"}

\* the Factor Store loaded from the full factors.yml has no electrical mix
\* for the location
NoElectricalMix(location) ==
    get_electrical_mix(_load_factors(FullFactors), location) = None

\* Claim C17: a server computation whose usage location has no
\* electrical-mix entry in the Factor Store returns no ImpactResult (it
\* fails with an error naming the location).
C17_UnknownLocationFails ==
    (/\ execRet.called
     /\ execArgs.device_config # None /\ execArgs.usage_config # None
     /\ execArgs.usage_config.location # NoneStr
     /\ NoElectricalMix(execArgs.usage_config.location))
        => ~ExecReturned(execRet)

\* the factor data of the server use case knows nothing about criterion c:
\* no electrical-mix factor and no impact factor carries its name
UnknownCriterion(c, location) ==
    /\ c \notin DOMAIN _get_electrical_factors(location)
    /\ c \notin DOMAIN _get_impact_factors
    /\ \A component \in DOMAIN _get_impact_factors :
           c \notin DOMAIN _get_impact_factors[component]

\* Claim C18: a requested criterion unknown to the factor data contributes
\* zero: its manufacturing value and its use-phase value are both 0, for
\* every device, usage and duration.
C18_UnknownCriterionIsZero ==
    ExecReturned(execRet) =>
        \A c \in DOMAIN execRet.out.value.phases.manufacturing :
            UnknownCriterion(c, execArgs.usage_config.location) =>
                /\ execRet.out.value.phases.manufacturing[c].value = DZero
                /\ execRet.out.value.phases.use[c].value = DZero

\* the keys of the first component instances of a kind
CpuKey == "CPU-1"
RamKeys == <<"RAM-1", "RAM-2">>

\* Claim C22: the verbose report of a device holds one entry per component
\* instance, keyed by kind and index (CPU-1, RAM-1, ...), each with its
\* impacts and units, plus one USAGE entry that carries only impacts, and
\* no other entry.
C22_VerboseReportPerComponent ==
    (ExecReturned(execRet) /\ execArgs.verbose) =>
        LET report == execRet.out.value.verbose_data
            device == execArgs.device_config
        IN  /\ "USAGE" \in DOMAIN report
            /\ DOMAIN report["USAGE"] = {"impacts"}
            /\ device.cpu # None => CpuKey \in DOMAIN report
            /\ \A i \in 1..Len(device.ram) : RamKeys[i] \in DOMAIN report
            /\ Cardinality(DOMAIN report) =
                   1 + (IF device.cpu # None THEN 1 ELSE 0)
                     + Len(device.ram) + Len(device.disk)
            /\ \A key \in DOMAIN report \ {"USAGE"} :
                   {"impacts", "units"} \subseteq DOMAIN report[key]

\* no lookup of the archetype repository and no read of the factor provider
\* has begun
StoresNeverCalled ==
    repoCall = NotCalled /\ _cache = EmptyDict /\ reader = IdleReader

ConfigurationError(kind) ==
    IF kind = "component" THEN "InvalidComponentConfigurationError"
    ELSE "InvalidDeviceConfigurationError"

\* the configuration of a call is absent, or lacks a field its use case
\* requires
ConfigurationRejected(call) ==
    \/ call.configuration = None
    \/ /\ call.kind = "cloud"
       /\ \/ call.configuration.instance_type \in {"", NoneStr}
          \/ call.configuration.provider \in {"", NoneStr}
    \/ /\ call.kind = "component"
       /\ call.configuration.component_type \in {"", NoneStr}

\* the outcome the validation of a call prescribes, "" when the call is valid
ValidationError(call) ==
    IF ConfigurationRejected(call) THEN ConfigurationError(call.kind)
    ELSE IF call.usage_config = None THEN "InvalidUsageConfigurationError"
    ELSE ""

\* Claim C15: execute validates before it computes: an absent device,
\* instance or component configuration raises the typed configuration error,
\* so does an empty instance type or provider (cloud) or component type
\* (component); an absent usage configuration raises
\* InvalidUsageConfigurationError; in each case no ImpactResult is returned.
C15_InvalidInputsRaise ==
    \A ret \in {ucRet, ucRetYear} :
        (ret # NotCalled /\ ValidationError(ucArgs) # "") =>
            /\ ret.out.raised = ValidationError(ucArgs)
            /\ "value" \notin DOMAIN ret.out

\* a component call without component type has raised the component error,
\* and so has the same call with a year's duration
C15_Witness ==
    /\ ucArgs # NotCalled /\ ucArgs.kind = "component"
    /\ ucArgs.configuration # None
    /\ ucArgs.configuration.component_type = ""
    /\ ucRet # NotCalled /\ ucRetYear # NotCalled
    /\ ucRet.out = Raised("InvalidComponentConfigurationError")

\* ------------------------------------------------------------------------
\* Properties of the REST mapping (SpecMap)
\* ------------------------------------------------------------------------
\* the components of the request, each paired with the configuration the
\* mapper built for it
MappedComponents ==
    LET configuration == mapArgs.server.configuration
        device == mapDevice.ret
    IN  IF configuration = None THEN {}
        ELSE (IF configuration.cpu = None THEN {}
              ELSE {<<configuration.cpu, device.cpu>>})
             \cup {<<configuration.ram[i], device.ram[i]>> :
                      i \in 1..Len(configuration.ram)}
             \cup {<<configuration.disk[i], device.disk[i]>> :
                      i \in 1..Len(configuration.disk)}

\* the unit count the calculator reads from a component configuration
UnitsUsed(component) == getattr(component, "units", 1)

\* the status a resolved configuration records for an attribute: the entry
\* of completed_attributes, INPUT for a set attribute without entry, and
\* no status for an attribute the configuration does not hold
StatusOf(configuration, attribute) ==
    IF attribute \in DOMAIN configuration.completed_attributes
    THEN configuration.completed_attributes[attribute]
    ELSE IF attribute \in DOMAIN configuration THEN "INPUT"
    ELSE "none"

\* Claim C19: an attribute of a resolved device or usage configuration is
\* tagged INPUT if and only if the caller supplied its value, and every
\* caller-supplied value, a component's unit count included, reaches the
\* impact computation unchanged.
C19_SuppliedValuesAreKeptAndTagged ==
    /\ mapDevice # NotCalled =>
           \A p \in MappedComponents :
               /\ p[1].units # NoneInt => UnitsUsed(p[2]) = p[1].units
               /\ StatusOf(p[2], "units") = "INPUT" <=> p[1].units # NoneInt
    /\ mapUsage # NotCalled =>
           /\ mapArgs.usage.usage_location # NoneStr =>
                  mapUsage.ret.location = mapArgs.usage.usage_location
           /\ StatusOf(mapUsage.ret, "location") = "INPUT"
                  <=> mapArgs.usage.usage_location # NoneStr
           /\ mapArgs.usage.hours_life_time # None =>
                  mapUsage.ret.hours_life_time
                      = DecimalOfStr(mapArgs.usage.hours_life_time)
           /\ StatusOf(mapUsage.ret, "hours_life_time") = "INPUT"
                  <=> mapArgs.usage.hours_life_time # None

WithUnitsOne(device) ==
    [device EXCEPT
        !.cpu = IF @ = None THEN None ELSE [units |-> 1] @@ @,
        !.ram = [i \in 1..Len(@) |-> [units |-> 1] @@ @[i]],
        !.disk = [i \in 1..Len(@) |-> [units |-> 1] @@ @[i]]]

\* Claim C20: for a component whose unit count the caller left unspecified,
\* the unit count used in the manufacturing and power computations is 1,
\* and that default is tagged DEFAULT or COMPLETED, never INPUT.
C20_DefaultUnitsIsOneAndTagged ==
    /\ mapDevice # NotCalled =>
           \A p \in MappedComponents :
               p[1].units = NoneInt =>
                   /\ UnitsUsed(p[2]) = 1
                   /\ StatusOf(p[2], "units") \in {"DEFAULT", "COMPLETED"}
    /\ (/\ mapCalc # NotCalled
        /\ \A p \in MappedComponents : p[1].units = NoneInt) =>
           /\ mapCalc.manufacturing =
                  calculate_manufacturing_impact(WithUnitsOne(mapDevice.ret),
                                                 <<"gwp">>, _get_impact_factors)
           /\ mapCalc.power = _estimate_device_power(WithUnitsOne(mapDevice.ret))

\* ------------------------------------------------------------------------
\* Properties of DIContainer (SpecContainer)
\* ------------------------------------------------------------------------
IsGet(i) == calls[i].op = "get_container"

ResetBetween(i, j) ==
    \E k \in (i + 1)..(j - 1) : calls[k].op = "reset_instance"

\* Claim C23: two get_container calls with no reset_instance between them
\* return the same container, hence the same Archetype Store and Factor
\* Store; the first get_container after a reset_instance returns a
\* container different from the one returned before the reset.
C23_SingletonUntilReset ==
    \A i, j \in DOMAIN calls :
        (i < j /\ IsGet(i) /\ IsGet(j)) =>
            /\ ~ResetBetween(i, j) =>
                   /\ calls[j].ret = calls[i].ret
                   /\ built[calls[j].ret] = built[calls[i].ret]
            /\ ResetBetween(i, j) =>
                   /\ calls[j].ret # calls[i].ret
                   /\ built[calls[j].ret]._archetype_repository
                          # built[calls[i].ret]._archetype_repository
                   /\ built[calls[j].ret]._factor_provider
                          # built[calls[i].ret]._factor_provider

\* get, get, reset, get: the first two calls returned one container and the
\* last one another
C23_Witness ==
    /\ Len(calls) >= 4
    /\ IsGet(1) /\ IsGet(2) /\ calls[3].op = "reset_instance" /\ IsGet(4)
    /\ calls[1].ret = calls[2].ret
    /\ calls[4].ret # calls[2].ret

\* ------------------------------------------------------------------------
\* Properties of ArchetypeRepository
\* ------------------------------------------------------------------------
IsLookup(call) == call # NotCalled /\ call.op # "clear_cache"

\* the record the backing table holds for what a lookup consults, None
\* when the file or the row is missing
BackingRecord(files, plan) ==
    IF plan.csv_path \in DOMAIN files
       /\ plan.archetype_id \in DOMAIN files[plan.csv_path]
    THEN files[plan.csv_path][plan.archetype_id]
    ELSE None

\* C6: a lookup of any category whose archetype id, component type or
\* provider has no record in the backing table returns None and leaves the
\* cache as it was.
C6_MissingRecordYieldsNone ==
    [][(IsLookup(repoCall') /\ BackingRecord(csvFiles', repoCall'.plan) = None)
         => (repoCall'.ret = NoneRef /\ _cache' = _cache)]_vars

\* C7: in every category, a lookup given the id "default" consults the
\* cache and the backing table under the fallback id, never under
\* "default" itself.
C7_DefaultIsRewritten ==
    (IsLookup(repoCall) /\ repoCall.args[1] = Default)
        => repoCall.plan.archetype_id # Default

\* C8: once a lookup of a pair (operation, arguments) has returned a
\* record, every later lookup of that pair before the next clear_cache
\* returns that same object and does not read the backing table.
C8_MemoizedUntilCleared ==
    [][(IsLookup(repoCall') /\ <<repoCall'.op, repoCall'.args>> \in DOMAIN memo)
         => (/\ repoCall'.ret = memo[<<repoCall'.op, repoCall'.args>>]
             /\ ~repoCall'.read)]_vars

\* a lookup has just been answered from the cache with the record an
\* earlier lookup of the same pair returned
C8_Witness ==
    /\ IsLookup(repoCall)
    /\ repoCall.ret # NoneRef
    /\ ~repoCall.read
    /\ <<repoCall.op, repoCall.args>> \in DOMAIN memo
    /\ memo[<<repoCall.op, repoCall.args>>] = repoCall.ret
    /\ Deref(heap, repoCall.ret) = BackingRecord(csvFiles, repoCall.plan)

\* Claim C26: whatever callers do with the records returned to them, the
\* record a lookup returns equals the record the backing table holds for
\* its key.
C26_ReturnedRecordIsBackingRecord ==
    [][("plan" \in DOMAIN repoCall' /\ repoCall'.ret # NoneRef)
         => Deref(heap', repoCall'.ret)
                = BackingRecord(csvFiles', repoCall'.plan)]_vars

\* the operation and the arguments after the rewrite of "default" that the
\* lookup op(*args) consults
LookupKey(pair) ==
    <<pair[1], PlanOf(config, pair[1], pair[2]).csv_path,
      PlanOf(config, pair[1], pair[2]).archetype_id>>

\* Claim C27: two lookups that differ in operation or in any argument after
\* the rewrite of "default" never use the same cache entry: the lookups
\* that were answered with one cached object all have the same operation
\* and rewritten arguments.
C27_CacheEntriesAreNotShared ==
    \A p, q \in DOMAIN memo :
        memo[p] = memo[q] => LookupKey(p) = LookupKey(q)

\* C9: whatever the interleaving of lookups and clear_cache, a lookup that
\* completes has raised nothing and returns a record equal to the backing
\* table's record for its key.
C9_ConcurrentLookupsReturnBackingRecord ==
    \A t \in Threads :
        threads[t].pc = "done"
            => /\ threads[t].raised = NoneStr
               /\ Deref(heap, threads[t].ret)
                      = BackingRecord(csvFiles, threads[t].plan)

\* ------------------------------------------------------------------------
\* Properties of FactorProvider
\* ------------------------------------------------------------------------
\* a read that completed while self._factors held one table throughout
ReadOnOneTable == reader.pc = "done" /\ Cardinality(reader.seen) = 1

\* the table of such a read
TableRead == CHOOSE factors \in reader.seen : TRUE

\* the aliases of code in the electricity section, in the order of the map
AliasesOf(electricity, code) ==
    IF "available_countries" \in DOMAIN electricity
    THEN SelectSeq(electricity.available_countries.items,
                   LAMBDA item : item[2] = code)
    ELSE <<>>

\* whether the table has an entry for the arguments of a read
HasEntry(factors, op, args) ==
    /\ factors # None
    /\ CASE op = "get_impact_factors" -> args[1] \in DOMAIN factors
         [] op = "get_electrical_mix" ->
                /\ "electricity" \in DOMAIN factors
                /\ \/ args[1] \in DOMAIN factors.electricity
                   \/ \E i \in DOMAIN AliasesOf(factors.electricity, args[1]) :
                          AliasesOf(factors.electricity, args[1])[i][1]
                              \in DOMAIN factors.electricity
         [] op = "get_consumption_profile_factors" ->
                /\ "consumption_profiles" \in DOMAIN factors
                /\ args[1] \in DOMAIN factors.consumption_profiles
         [] op = "get_iot_impact_factor" ->
                /\ "IoT" \in DOMAIN factors
                /\ args[1] \in DOMAIN factors.IoT
                /\ args[2] \in DOMAIN factors.IoT[args[1]]
                /\ \A part \in {"manufacture", "eol"} :
                       /\ part \in DOMAIN factors.IoT[args[1]][args[2]]
                       /\ args[3] \in DOMAIN factors.IoT[args[1]][args[2]][part]

DesignatedMix(factors, code) ==
    IF ~Truthy(factors) \/ "electricity" \notin DOMAIN factors THEN None
    ELSE IF code \in DOMAIN factors.electricity THEN factors.electricity[code]
    ELSE IF AliasesOf(factors.electricity, code) # <<>>
    THEN DictGet(factors.electricity,
                 AliasesOf(factors.electricity, code)[1][1], None)
    ELSE None

\* C12: get_electrical_mix(code) returns the entry registered directly
\* under code when there is one; otherwise the entry registered under the
\* (first) alias whose code is code; otherwise None.
C12_DirectKeyThenAlias ==
    (ReadOnOneTable /\ reader.op = "get_electrical_mix")
        => /\ reader.raised = NoneStr
           /\ reader.ret = DesignatedMix(TableRead, reader.args[1])

\* a code that is both a direct key and the code of an alias was looked up
\* and the direct entry returned
C12_Witness ==
    /\ ReadOnOneTable
    /\ reader.op = "get_electrical_mix"
    /\ TableRead = AliasFactors
    /\ reader.args[1] = "SE"
    /\ reader.ret = AliasFactors.electricity.SE

\* the electrical-mix entries of the locations of a table: the values of
\* its electricity section other than the alias map
LocationMixes(factors) ==
    IF ~Truthy(factors) \/ "electricity" \notin DOMAIN factors THEN {}
    ELSE {factors.electricity[location] :
              location \in DOMAIN factors.electricity \ {"available_countries"}}

\* Claim C28: for every argument, get_electrical_mix returns None or the
\* electrical-mix entry of one location, never the alias map
\* available_countries or another part of the electricity section.
C28_MixIsNoneOrLocationEntry ==
    (ReadOnOneTable /\ reader.op = "get_electrical_mix")
        => (reader.ret = None \/ reader.ret \in LocationMixes(TableRead))

\* C10: a read interleaved with reload_factors raises nothing and returns
\* what it returns when run on its own on one of the tables self._factors
\* held during the read (the old table or a new one).
C10_ReadSeesOneTable ==
    reader.pc = "done"
        => /\ reader.raised = NoneStr
           /\ \E factors \in reader.seen :
                  reader.ret = ReadOn(factors, reader.op, reader.args)

====
